---- MODULE Spec2Model ----
(***************************************************************************)
(* Repository code-indexing pipeline: the SQLite access layer              *)
(* (RepositoryDatabase), and the scanner (RepositoryMapper.run) that walks *)
(* a file tree and writes File/Function/Import/Export/Dependency rows.     *)
(*                                                                         *)
(* Tables are sequences; a row's id is its index (AUTOINCREMENT, and no    *)
(* statement of the program deletes a row).  Paths are sequences of path   *)
(* segments: "lib/b.js" is <<"lib", "b.js">>, "./util.js" is               *)
(* <<".", "util.js">> and "/util.js" is <<"", "util.js">>.                 *)
(***************************************************************************)
EXTENDS Integers, Sequences, FiniteSets, TLC

VARIABLES
    db,          \* content of the SQLite database as this connection sees it
    txActive,    \* an SQLite transaction is open on the connection
    txSnapshot,  \* database content at BEGIN (what ROLLBACK restores)
    now,         \* CURRENT_TIMESTAMP, in seconds (from 1; 0 is NULL)
    pc,          \* position of RepositoryMapper.run
    repo,        \* this.repo.id
    scanId,      \* this.scanId
    stats,       \* this.stats
    fileList,    \* result of getAllFiles, in traversal order
    idx,         \* number of files of fileList the loop has gone through
    thrown,      \* the error run() is propagating ("none" when none)
    runs,        \* number of run() calls started
    injected,    \* number of environment errors raised so far
    outcome,     \* how the last run() settled
    errorLog,    \* the errors scanRepository caught and logged
    startTotals, \* the Repository row's totals when the current run began
    history,     \* the calls made on the access layer, with their results
    fileContent, \* text handed to an analyzer function applied on its own
    analyzed,    \* what the analyzer function returned for fileContent
    handle,      \* this.db and this.isConnected of a RepositoryDatabase client
    inflight     \* access-layer calls that have started and not yet settled

vars == <<db, txActive, txSnapshot, now, pc, repo, scanId, stats, fileList,
          idx, thrown, runs, injected, outcome, errorLog, startTotals,
          history, fileContent, analyzed, handle, inflight>>

----------------------------------------------------------------------------
(* Bounds *)

MaxRuns == 2
MaxFaults == 1
MaxNow == 1
MaxCalls == 3
MaxEdges == 1

----------------------------------------------------------------------------
(* JavaScript / SQL values *)

NULL == 0
UNDEFINED == 0 - 1

\* a || b for numbers, null and undefined
OrElse(a, b) == IF a = NULL \/ a = UNDEFINED THEN b ELSE a

Last(s) == s[Len(s)]
Front(s) == SubSeq(s, 1, Len(s) - 1)

RECURSIVE SumSeq(_)
SumSeq(s) == IF s = <<>> THEN 0 ELSE Head(s) + SumSeq(Tail(s))

----------------------------------------------------------------------------
(* Schema: the empty database *)

EmptyDb ==
    [repository_metadata |-> <<>>,
     scan_history |-> <<>>,
     files |-> <<>>,
     functions |-> <<>>,
     imports |-> <<>>,
     exports |-> <<>>,
     dependencies |-> <<>>,
     languages |-> <<>>,
     files_fts |-> <<>>,
     files_fts_data |-> [name |-> 0, path |-> 0, purpose |-> 0],
     functions_fts |-> <<>>]

----------------------------------------------------------------------------
(* Storage access layer.  Each operation maps a database to the database   *)
(* after the statement(s) and the value the method resolves with.          *)

\* The words the FTS5 tokenizer (unicode61: runs of letters and digits,
\* case folded) makes of the strings stored in the indexed columns
FtsWords(str) ==
    CASE str = "" -> {}
      [] str \in {"a.js", "A.JS"} -> {"a", "js"}
      [] str = "b.js" -> {"b", "js"}
      [] str = "util.js" -> {"util", "js"}
      [] str = "util.json" -> {"util", "json"}
      [] str = "index.js" -> {"index", "js"}
      [] str = "util" -> {"util"}
      [] str = "lib" -> {"lib"}
      [] str = "JavaScript module" -> {"javascript", "module"}
      [] str = "Core game logic and UI interactions" ->
            {"core", "game", "logic", "and", "ui", "interactions"}
      [] str = "Unknown" -> {"unknown"}
      [] str = "README.md" -> {"readme", "md"}
      [] str = "LICENSE" -> {"license"}
      [] str = "Documentation" -> {"documentation"}
      [] str \in {"add", "check", "x", "render"} -> {str}

\* the words of a path: those of its segments
FtsPathWords(path) == UNION {FtsWords(path[i]) : i \in 1..Len(path)}

\* the words of the columns of files_fts (name, path, purpose) for a row
FileWords(path, fileData) ==
    FtsWords(fileData.name) \cup FtsPathWords(path) \cup FtsWords(fileData.purpose)

\* the number of tokens of each column of files_fts for a row (no string
\* of the model repeats a word)
FileSizes(path, fileData) ==
    [name |-> Cardinality(FtsWords(fileData.name)),
     path |-> Cardinality(FtsPathWords(path)),
     purpose |-> Cardinality(FtsWords(fileData.purpose))]

\* trigger files_fts_insert: the index entries of the new row
files_fts_insert(path, fileData) == FileWords(path, fileData)

\* the token totals FTS5 keeps per column, after the entries of a row
\* were added
files_fts_data_insert(totals, path, fileData) ==
    [c \in DOMAIN totals |-> totals[c] + FileSizes(path, fileData)[c]]

SQLITE_CORRUPT_VTAB == "SQLITE_CORRUPT: database disk image is malformed"

\* trigger files_fts_update, UPDATE files_fts SET ... WHERE rowid = NEW.id.
\* files_fts is an external-content table (content=files): FTS5 takes the
\* entries to remove from the content row, which already holds the NEW
\* values when an AFTER UPDATE trigger runs, then adds the NEW values.
files_fts_update(entries, path, fileData) ==
    (entries \ FileWords(path, fileData)) \cup FileWords(path, fileData)

\* the removal also takes the tokens of the content row off the column
\* totals; FTS5 refuses to take more than a total holds and fails the
\* statement, the UPDATE of files included
files_fts_update_error(totals, path, fileData) ==
    IF \E c \in DOMAIN totals : totals[c] < FileSizes(path, fileData)[c]
    THEN SQLITE_CORRUPT_VTAB
    ELSE "none"

\* trigger functions_fts_insert (name, signature, purpose): the model keeps
\* a function's name
functions_fts_insert(functionData) == FtsWords(functionData.name)

\* searchFiles / searchFunctions for one word: the ids of the rows joined
\* to the index entries that MATCH it
searchFiles(d, word) == {i \in 1..Len(d.files) : word \in d.files_fts[i]}
searchFunctions(d, word) ==
    {i \in 1..Len(d.functions) : word \in d.functions_fts[i]}

RepoIdOf(d, owner, name) ==
    LET hits == {i \in 1..Len(d.repository_metadata) :
                    /\ d.repository_metadata[i].repo_owner = owner
                    /\ d.repository_metadata[i].repo_name = name}
    IN IF hits = {} THEN NULL ELSE CHOOSE i \in hits : \A j \in hits : i <= j

\* the INSERT branch of getOrCreateRepository taken unconditionally
getOrCreateRepositoryInsertOnly(d, owner, name, url, t) ==
    [db |-> [d EXCEPT !.repository_metadata = Append(@,
                [repo_owner |-> owner, repo_name |-> name,
                 repo_url |-> url, version |-> "1.0.0",
                 total_files |-> 0, total_lines |-> 0,
                 last_updated |-> t, created_at |-> t])],
     ret |-> Len(d.repository_metadata) + 1]

getOrCreateRepository(d, owner, name, url, t) ==
    LET existing == RepoIdOf(d, owner, name)
    IN IF existing # NULL
       THEN [db |-> d, ret |-> existing]
       ELSE [db |-> [d EXCEPT !.repository_metadata = Append(@,
                        [repo_owner |-> owner, repo_name |-> name,
                         repo_url |-> url, version |-> "1.0.0",
                         total_files |-> 0, total_lines |-> 0,
                         last_updated |-> t, created_at |-> t])],
             ret |-> Len(d.repository_metadata) + 1]

updateRepositoryStats(d, repoId, totalFiles, totalLines, t) ==
    [d EXCEPT !.repository_metadata =
        [i \in 1..Len(@) |->
            IF i = repoId
            THEN [@[i] EXCEPT !.total_files = totalFiles,
                              !.total_lines = totalLines,
                              !.last_updated = t]
            ELSE @[i]]]

startScan(d, repoId, scanType, t) ==
    [db |-> [d EXCEPT !.scan_history = Append(@,
                [repo_metadata_id |-> repoId, scan_type |-> scanType,
                 started_at |-> t, completed_at |-> NULL,
                 files_scanned |-> 0, lines_scanned |-> 0,
                 errors_count |-> 0, status |-> "running"])],
     ret |-> Len(d.scan_history) + 1]

completeScan(d, id, filesScanned, linesScanned, errorsCount, t) ==
    [d EXCEPT !.scan_history =
        [i \in 1..Len(@) |->
            IF i = id
            THEN [@[i] EXCEPT !.completed_at = t,
                              !.files_scanned = filesScanned,
                              !.lines_scanned = linesScanned,
                              !.errors_count = errorsCount,
                              !.status = "completed"]
            ELSE @[i]]]

failScan(d, id, t) ==
    [d EXCEPT !.scan_history =
        [i \in 1..Len(@) |->
            IF i = id
            THEN [@[i] EXCEPT !.completed_at = t, !.status = "failed"]
            ELSE @[i]]]

getFileByPath(d, repoId, path) ==
    LET hits == {i \in 1..Len(d.files) :
                    /\ d.files[i].repo_metadata_id = repoId
                    /\ d.files[i].path = path}
    IN IF hits = {} THEN NULL ELSE CHOOSE i \in hits : \A j \in hits : i <= j

\* the columns upsertFile writes from fileData, in both branches
FileColumns(fileData) ==
    [name |-> fileData.name, file_type |-> fileData.file_type,
     extension |-> fileData.extension, size_bytes |-> fileData.size_bytes,
     lines_count |-> fileData.lines_count, code_lines |-> fileData.code_lines,
     comment_lines |-> fileData.comment_lines,
     blank_lines |-> fileData.blank_lines, hash |-> fileData.hash,
     purpose |-> fileData.purpose,
     complexity_score |-> OrElse(fileData.complexity_score, 0)]

\* an upsertFile written as INSERT OR REPLACE: the row of the key is deleted
\* (its slot is left empty) and a row with a fresh id takes its place
upsertFileReplace(d, repoId, fileData, t) ==
    LET existing == getFileByPath(d, repoId, fileData.path)
        fresh == [repo_metadata_id |-> repoId, path |-> fileData.path,
                  cols |-> FileColumns(fileData),
                  created_at |-> t, updated_at |-> t]
        kept == IF existing = NULL THEN d.files
                ELSE [d.files EXCEPT ![existing] =
                         [@ EXCEPT !.repo_metadata_id = NULL, !.path = <<>>]]
    IN [db |-> [d EXCEPT !.files = Append(kept, fresh),
                         !.files_fts = Append(@,
                             files_fts_insert(fileData.path, fileData)),
                         !.files_fts_data =
                             files_fts_data_insert(@, fileData.path, fileData)],
        ret |-> Len(d.files) + 1, error |-> "none"]

\* upsertFile resolves with ret, or rejects with error when its statement
\* fails (the statement's changes are then undone)
upsertFile(d, repoId, fileData, t) ==
    LET existing == getFileByPath(d, repoId, fileData.path)
    IN IF existing # NULL
       THEN IF files_fts_update_error(d.files_fts_data,
                                      d.files[existing].path, fileData) # "none"
            THEN [db |-> d, ret |-> UNDEFINED,
                  error |-> files_fts_update_error(
                      d.files_fts_data, d.files[existing].path, fileData)]
            ELSE [db |-> [d EXCEPT !.files[existing] =
                        [repo_metadata_id |-> @.repo_metadata_id,
                         path |-> @.path,
                         cols |-> FileColumns(fileData),
                         created_at |-> @.created_at,
                         updated_at |-> t],
                               !.files_fts[existing] =
                        files_fts_update(@, d.files[existing].path, fileData)],
                  ret |-> existing, error |-> "none"]
       ELSE [db |-> [d EXCEPT !.files = Append(@,
                        [repo_metadata_id |-> repoId,
                         path |-> fileData.path,
                         cols |-> FileColumns(fileData),
                         created_at |-> t,
                         updated_at |-> t]),
                               !.files_fts = Append(@,
                        files_fts_insert(fileData.path, fileData)),
                               !.files_fts_data =
                        files_fts_data_insert(@, fileData.path, fileData)],
             ret |-> Len(d.files) + 1, error |-> "none"]

\* the File rows of the store
FileIds(d) == {i \in 1..Len(d.files) : d.files[i].repo_metadata_id # NULL}

SQLITE_CONSTRAINT_NOTNULL == "SQLITE_CONSTRAINT: NOT NULL constraint failed"
SQLITE_CONSTRAINT_FOREIGNKEY == "SQLITE_CONSTRAINT: FOREIGN KEY constraint failed"

\* the error of an INSERT into functions, imports, exports (file_id) or
\* dependencies (from_file_id, to_file_id) under PRAGMA foreign_keys = ON:
\* file_id and from_file_id are NOT NULL, and every id that is not null
\* REFERENCES files(id).  toFileId is NULL for the tables without a second
\* key.
insertError(d, fileId, toFileId) ==
    CASE fileId \in {NULL, UNDEFINED} -> SQLITE_CONSTRAINT_NOTNULL
      [] fileId \notin {NULL, UNDEFINED} /\ fileId \notin FileIds(d) ->
            SQLITE_CONSTRAINT_FOREIGNKEY
      [] OTHER ->
            IF toFileId \notin {NULL, UNDEFINED} /\ toFileId \notin FileIds(d)
            THEN SQLITE_CONSTRAINT_FOREIGNKEY
            ELSE "none"

\* an addFunction on a connection that does not enforce foreign keys
addFunctionUnchecked(d, fileId, functionData) ==
    [d EXCEPT !.functions = Append(@,
        [file_id |-> fileId, name |-> functionData.name,
         complexity |-> OrElse(functionData.complexity, 0)]),
              !.functions_fts = Append(@, functions_fts_insert(functionData))]

\* an addFunction that skips a function already stored for the file
addFunctionDedup(d, fileId, functionData) ==
    IF \E i \in 1..Len(d.functions) :
          /\ d.functions[i].file_id = fileId
          /\ d.functions[i].name = functionData.name
    THEN d
    ELSE [d EXCEPT !.functions = Append(@,
            [file_id |-> fileId, name |-> functionData.name,
             complexity |-> OrElse(functionData.complexity, 0)]),
                  !.functions_fts = Append(@, functions_fts_insert(functionData))]

\* addFunction, addImport, addExport, addDependency: the database after the
\* call; a call whose INSERT is rejected (insertError) leaves it as it was
addFunction(d, fileId, functionData) ==
    IF insertError(d, fileId, NULL) # "none" THEN d
    ELSE [d EXCEPT !.functions = Append(@,
            [file_id |-> fileId, name |-> functionData.name,
             complexity |-> OrElse(functionData.complexity, 0)]),
                  !.functions_fts = Append(@, functions_fts_insert(functionData))]

addImport(d, fileId, importData) ==
    IF insertError(d, fileId, NULL) # "none" THEN d
    ELSE [d EXCEPT !.imports = Append(@,
            [file_id |-> fileId, imported_from |-> importData.imported_from,
             import_type |-> importData.import_type,
             is_external |-> importData.is_external])]

addExport(d, fileId, exportData) ==
    IF insertError(d, fileId, NULL) # "none" THEN d
    ELSE [d EXCEPT !.exports = Append(@,
            [file_id |-> fileId, exported_name |-> exportData.exported_name,
             export_type |-> exportData.export_type])]

dbAddDependency(d, fromFileId, toFileId, dependencyType, importPath) ==
    IF insertError(d, fromFileId, toFileId) # "none" THEN d
    ELSE [d EXCEPT !.dependencies = Append(@,
            [from_file_id |-> fromFileId,
             to_file_id |-> IF toFileId = UNDEFINED THEN NULL ELSE toFileId,
             dependency_type |-> dependencyType,
             import_path |-> importPath,
             is_resolved |-> (toFileId # NULL)])]

----------------------------------------------------------------------------
(* Paths (node's path module, POSIX) *)

\* the segments whose first character is '.'
DotSegments == {".", ".."}

StartsWithDot(p) == Head(p) \in DotSegments
StartsWithSlash(p) == Head(p) = ""

\* path.normalize of a relative path given by its segments
RECURSIVE NormalizeOnto(_, _)
NormalizeOnto(stack, segs) ==
    IF segs = <<>> THEN stack
    ELSE LET s == Head(segs)
         IN IF s = "" \/ s = "."
            THEN NormalizeOnto(stack, Tail(segs))
            ELSE IF s = ".." /\ stack # <<>> /\ Last(stack) # ".."
            THEN NormalizeOnto(Front(stack), Tail(segs))
            ELSE NormalizeOnto(Append(stack, s), Tail(segs))

PathJoin(a, b) ==
    LET n == NormalizeOnto(<<>>, a \o b)
    IN IF n = <<>> THEN <<".">> ELSE n

PathDirname(p) == IF Len(p) = 1 THEN <<".">> ELSE Front(p)

PathBasename(p) == Last(p)

\* resolvedPath + ext, for ext in ['', '.js', '.json', '/index.js']
WithExtension(p, ext) ==
    IF ext = "" THEN p
    ELSE IF ext = "/index.js" THEN Append(p, "index.js")
    ELSE Append(Front(p), Last(p) \o ext)

\* a probing order that tries '.json' before '.js'
extensionsJsonFirst == <<"", ".json", ".js", "/index.js">>

extensions == <<"", ".js", ".json", "/index.js">>

----------------------------------------------------------------------------
(* RepositoryMapper: dependency resolution *)

\* extractImports: isExternal
IsExternal(from) == ~StartsWithDot(from) /\ ~StartsWithSlash(from)

\* the for loop over extensions: first candidate that is indexed, from i on
RECURSIVE ProbeExtensions(_, _, _, _)
ProbeExtensions(d, repoId, resolvedPath, i) ==
    IF i > Len(extensions) THEN NULL
    ELSE LET toFile == getFileByPath(d, repoId,
                                     WithExtension(resolvedPath, extensions[i]))
         IN IF toFile # NULL THEN toFile
            ELSE ProbeExtensions(d, repoId, resolvedPath, i + 1)

\* the target file id mapper.addDependency passes to the access layer
ResolveImport(d, repoId, fromFilePath, importData) ==
    IF importData.is_external THEN NULL
    ELSE ProbeExtensions(d, repoId,
             PathJoin(PathDirname(fromFilePath), importData.imported_from), 1)

addDependency(d, repoId, fromFileId, fromFilePath, importData) ==
    dbAddDependency(d, fromFileId,
                    ResolveImport(d, repoId, fromFilePath, importData),
                    "import", importData.imported_from)

----------------------------------------------------------------------------
(* The file tree the scanner walks.  A tree file carries what readFile,    *)
(* stat and the analyzer of its category yield for its content.            *)

FileA ==
    [path |-> <<"a.js">>, ext |-> "js", size_bytes |-> 60, hash |-> "sha-a",
     lines_count |-> 3, codeLines |-> 2, commentLines |-> 1, blankLines |-> 0,
     purpose |-> "JavaScript module",
     functions |-> <<[name |-> "add", complexity |-> 1],
                     [name |-> "check", complexity |-> 2]>>,
     imports |-> <<[from |-> <<".", "util.js">>, import_type |-> "named"]>>,
     exports |-> <<[exported_name |-> "add", export_type |-> "named"]>>]

FileUtil ==
    [path |-> <<"util.js">>, ext |-> "js", size_bytes |-> 20, hash |-> "sha-u",
     lines_count |-> 1, codeLines |-> 1, commentLines |-> 0, blankLines |-> 0,
     purpose |-> "JavaScript module",
     functions |-> <<[name |-> "x", complexity |-> 1]>>,
     imports |-> <<>>,
     exports |-> <<>>]

TreeFiles == {FileA, FileUtil}

\* the orders in which getAllFiles can list a tree made of these files
Trees ==
    {t \in UNION {[1..n -> TreeFiles] : n \in 1..Cardinality(TreeFiles)} :
        \A i, j \in DOMAIN t : i # j => t[i].path # t[j].path}

\* this.languageMap[ext] || ext
languageMap(ext) ==
    CASE ext = "js" -> "JavaScript"
      [] ext = "html" -> "HTML"
      [] ext = "css" -> "CSS"
      [] ext = "md" -> "Markdown"
      [] ext = "json" -> "JSON"
      [] ext \in {"yml", "yaml"} -> "YAML"
      [] ext = "sh" -> "Shell"
      [] OTHER -> ext

\* extractImports: one record per import statement
ImportData(imp) ==
    [imported_from |-> imp.from, import_type |-> imp.import_type,
     is_external |-> IsExternal(imp.from)]

\* analyzeFile: the fileData record handed to upsertFile
FileDataOf(f) ==
    [name |-> PathBasename(f.path), path |-> f.path,
     file_type |-> languageMap(f.ext), extension |-> f.ext,
     size_bytes |-> f.size_bytes, lines_count |-> f.lines_count,
     code_lines |-> f.codeLines, comment_lines |-> f.commentLines,
     blank_lines |-> f.blankLines, hash |-> f.hash, purpose |-> f.purpose,
     complexity_score |->
         SumSeq([i \in 1..Len(f.functions) |-> f.functions[i].complexity])]

\* analyzeFile: the writes that follow upsertFile, in program order
ChildWrites(f) ==
    [i \in 1..Len(f.functions) |-> [op |-> "addFunction", data |-> f.functions[i]]]
    \o [i \in 1..Len(f.imports) |->
            [op |-> "addImport", data |-> ImportData(f.imports[i])]]
    \o [i \in 1..Len(f.exports) |-> [op |-> "addExport", data |-> f.exports[i]]]
    \o [i \in 1..Len(f.imports) |->
            [op |-> "addDependency", data |-> ImportData(f.imports[i])]]

ApplyWrite(d, repoId, fileId, relativePath, w) ==
    CASE w.op = "addFunction" -> addFunction(d, fileId, w.data)
      [] w.op = "addImport" -> addImport(d, fileId, w.data)
      [] w.op = "addExport" -> addExport(d, fileId, w.data)
      [] w.op = "addDependency" ->
            addDependency(d, repoId, fileId, relativePath, w.data)

\* the first n writes of ws, one after the other
RECURSIVE ApplyWrites(_, _, _, _, _, _)
ApplyWrites(d, repoId, fileId, relativePath, ws, n) ==
    IF n = 0 THEN d
    ELSE ApplyWrites(ApplyWrite(d, repoId, fileId, relativePath, Head(ws)),
                     repoId, fileId, relativePath, Tail(ws), n - 1)

NoFault == 0 - 1
ReadFault == 0

\* the fault points of analyzeFile: the read, or the k-th storage write
FaultPoints(f) == 0..(1 + Len(ChildWrites(f)))

\* analyzeFile(filePath) with the error, if any, raised at point fault:
\* every write before the fault has been executed on its own (autocommit)
analyzeFile(d, repoId, f, fault, t) ==
    IF fault = ReadFault \/ fault = 1
    THEN [db |-> d, threw |-> TRUE, functionsFound |-> 0]
    ELSE LET up == upsertFile(d, repoId, FileDataOf(f), t)
             ws == ChildWrites(f)
             n == IF fault = NoFault THEN Len(ws) ELSE fault - 2
         IN IF up.error # "none"
            THEN [db |-> d, threw |-> TRUE, functionsFound |-> 0]
            ELSE [db |-> ApplyWrites(up.db, repoId, up.ret, f.path, ws, n),
                  threw |-> fault # NoFault,
                  functionsFound |->
                      Cardinality({i \in 1..n : ws[i].op = "addFunction"})]

----------------------------------------------------------------------------
(* RepositoryMapper: statistics *)

FilesOfRepo(d, repoId) ==
    SelectSeq(d.files, LAMBDA r : r.repo_metadata_id = repoId)

LanguageIdOf(d, repoId, name) ==
    LET hits == {i \in 1..Len(d.languages) :
                    /\ d.languages[i].repo_metadata_id = repoId
                    /\ d.languages[i].name = name}
    IN IF hits = {} THEN NULL ELSE CHOOSE i \in hits : \A j \in hits : i <= j

\* an upsertLanguage that inserts without looking for the row
upsertLanguageInsertOnly(d, repoId, languageData, t) ==
    [d EXCEPT !.languages = Append(@,
        [repo_metadata_id |-> repoId, name |-> languageData.name,
         file_count |-> languageData.file_count,
         total_lines |-> languageData.total_lines,
         percentage |-> languageData.percentage,
         updated_at |-> t])]

upsertLanguage(d, repoId, languageData, t) ==
    LET existing == LanguageIdOf(d, repoId, languageData.name)
        row == [repo_metadata_id |-> repoId, name |-> languageData.name,
                file_count |-> languageData.file_count,
                total_lines |-> languageData.total_lines,
                percentage |-> languageData.percentage,
                updated_at |-> t]
    IN IF existing # NULL
       THEN [d EXCEPT !.languages[existing] = row]
       ELSE [d EXCEPT !.languages = Append(@, row)]

\* file.file_type || 'Unknown'
LangOf(row) == IF row.cols.file_type = "" THEN "Unknown" ELSE row.cols.file_type

\* the keys of languageStats, in insertion order
RECURSIVE LanguagesIn(_, _)
LanguagesIn(rows, seen) ==
    IF rows = <<>> THEN seen
    ELSE LET lang == LangOf(Head(rows))
         IN LanguagesIn(Tail(rows),
                IF \E i \in 1..Len(seen) : seen[i] = lang
                THEN seen ELSE Append(seen, lang))

RECURSIVE StoreLanguageStats(_, _, _, _, _)
StoreLanguageStats(d, repoId, rows, langs, t) ==
    IF langs = <<>> THEN d
    ELSE LET lang == Head(langs)
             mine == SelectSeq(rows, LAMBDA r : LangOf(r) = lang)
             lines == SumSeq([i \in 1..Len(mine) |-> mine[i].cols.lines_count])
             totalLines ==
                 SumSeq([i \in 1..Len(rows) |-> rows[i].cols.lines_count])
         IN StoreLanguageStats(
                upsertLanguage(d, repoId,
                    [name |-> lang, file_count |-> Len(mine),
                     total_lines |-> lines,
                     \* (stats.lines / totalLines) * 100, as a fraction
                     percentage |-> IF totalLines > 0
                                    THEN <<lines * 100, totalLines>>
                                    ELSE <<0, 1>>], t),
                repoId, rows, Tail(langs), t)

calculateStatistics(d, repoId, t) ==
    LET rows == FilesOfRepo(d, repoId)
        totalLines == SumSeq([i \in 1..Len(rows) |-> rows[i].cols.lines_count])
    IN updateRepositoryStats(
           StoreLanguageStats(d, repoId, rows, LanguagesIn(rows, <<>>), t),
           repoId, Len(rows), totalLines, t)

----------------------------------------------------------------------------
(* RepositoryMapper.run, one action per step of the method *)

\* the members of require('fs').promises the mapper's `fs` is bound to
FsPromisesMembers == {"readdir", "stat", "readFile", "writeFile", "mkdir"}

DefaultOwner == "statikfintechllc"
DefaultName == "The-GateKeepers-Riddles.i"
DefaultUrl == "https://github.com/statikfintechllc/The-GateKeepers-Riddles.i"

FreshStats ==
    [filesScanned |-> 0, linesScanned |-> 0, functionsFound |-> 0,
     errorsCount |-> 0]

CanFault == injected < MaxFaults

\* new RepositoryMapper(repoPath).run() up to the start of the file loop:
\* connect, getOrCreateRepository, startScan, getAllFiles
RunStart(tree, fault) ==
    /\ pc = "idle"
    /\ runs < MaxRuns
    /\ fault # "none" => CanFault
    /\ runs' = runs + 1
    /\ stats' = FreshStats
    /\ idx' = 0
    /\ errorLog' = <<>>
    /\ outcome' = "pending"
    /\ injected' = IF fault = "none" THEN injected ELSE injected + 1
    /\ UNCHANGED <<txActive, txSnapshot, now, history,
                   fileContent, analyzed, handle, inflight>>
    /\ IF fault = "connect"
       THEN /\ thrown' = "Failed to connect to database"
            /\ pc' = "catch"
            /\ repo' = UNDEFINED
            /\ scanId' = UNDEFINED
            /\ fileList' = <<>>
            /\ UNCHANGED <<db, startTotals>>
       ELSE LET r == getOrCreateRepository(db, DefaultOwner, DefaultName,
                                           DefaultUrl, now)
                s == startScan(r.db, r.ret, "full", now)
                row == r.db.repository_metadata[r.ret]
            IN /\ repo' = r.ret
               /\ startTotals' = <<row.total_files, row.total_lines,
                                   row.last_updated>>
               /\ IF fault = "startScan"
                  THEN /\ db' = r.db
                       /\ scanId' = UNDEFINED
                       /\ thrown' = "Execute error"
                       /\ pc' = "catch"
                       /\ fileList' = <<>>
                  ELSE /\ db' = s.db
                       /\ scanId' = s.ret
                       /\ IF fault = "readdir"
                          THEN /\ thrown' = "ENOENT"
                               /\ pc' = "catch"
                               /\ fileList' = <<>>
                          ELSE /\ thrown' = "none"
                               /\ pc' = "scan"
                               /\ fileList' = tree

\* a catch block that logs the error and forgets to count it
scanRepositoryCatchLogsOnly(st) == st

\* scanRepository: the catch block around analyzeFile
scanRepositoryCatch(st) == [st EXCEPT !.errorsCount = @ + 1]

\* an analyzeFile that counts the file and forgets its lines
countScannedFileOnly(st, lineCount) == [st EXCEPT !.filesScanned = @ + 1]

\* analyzeFile, after the last write: filesScanned++, linesScanned += lineCount
countScanned(st, lineCount) ==
    [st EXCEPT !.filesScanned = @ + 1, !.linesScanned = @ + lineCount]

\* one iteration of the loop of scanRepository: analyzeFile in try/catch
ScanFile ==
    /\ pc = "scan"
    /\ idx < Len(fileList)
    /\ \E fault \in {NoFault} \cup FaultPoints(fileList[idx + 1]) :
       LET f == fileList[idx + 1]
           a == analyzeFile(db, repo, f, fault, now)
       IN /\ fault # NoFault => CanFault
          /\ db' = a.db
          /\ stats' =
               IF a.threw
               THEN scanRepositoryCatch(
                        [stats EXCEPT !.functionsFound = @ + a.functionsFound])
               ELSE countScanned(
                        [stats EXCEPT !.functionsFound = @ + a.functionsFound],
                        f.lines_count)
          /\ errorLog' =
               IF a.threw
               THEN Append(errorLog,
                        [file |-> idx + 1,
                         kind |-> IF fault = ReadFault THEN "analysis"
                                  ELSE "storage"])
               ELSE errorLog
          /\ injected' = IF a.threw THEN injected + 1 ELSE injected
    /\ idx' = idx + 1
    /\ UNCHANGED <<txActive, txSnapshot, now, pc, repo, scanId, fileList,
                   thrown, runs, outcome, startTotals, history,
                   fileContent, analyzed, handle, inflight>>

\* scanRepository has returned: calculateStatistics
CalculateStatistics(fault) ==
    /\ pc = "scan"
    /\ idx = Len(fileList)
    /\ fault => CanFault
    /\ IF fault
       THEN /\ thrown' = "Query error"
            /\ pc' = "catch"
            /\ injected' = injected + 1
            /\ UNCHANGED db
       ELSE /\ db' = calculateStatistics(db, repo, now)
            /\ pc' = "generate"
            /\ UNCHANGED <<thrown, injected>>
    /\ UNCHANGED <<txActive, txSnapshot, now, repo, scanId, stats, fileList,
                   idx, runs, outcome, errorLog, startTotals, history,
                   fileContent, analyzed, handle, inflight>>

\* generateOutputFiles, then completeScan and printSummary.
\* fs.existsSync(dataDir) is a call of a member fs.promises does not have.
GenerateOutputFiles ==
    /\ pc = "generate"
    /\ IF "existsSync" \notin FsPromisesMembers
       THEN /\ thrown' = "TypeError: fs.existsSync is not a function"
            /\ pc' = "catch"
            /\ UNCHANGED db
       ELSE /\ db' = completeScan(db, scanId, stats.filesScanned,
                                  stats.linesScanned, stats.errorsCount, now)
            /\ pc' = "finally"
            /\ UNCHANGED thrown
    /\ UNCHANGED <<txActive, txSnapshot, now, repo, scanId, stats, fileList,
                   idx, runs, injected, outcome, errorLog, startTotals, history,
                   fileContent, analyzed, handle, inflight>>

\* catch (error): failScan when a scan was started, then rethrow
RunCatch ==
    /\ pc = "catch"
    /\ db' = IF scanId # UNDEFINED THEN failScan(db, scanId, now) ELSE db
    /\ pc' = "finally"
    /\ UNCHANGED <<txActive, txSnapshot, now, repo, scanId, stats, fileList,
                   idx, thrown, runs, injected, outcome, errorLog, startTotals, history,
                   fileContent, analyzed, handle, inflight>>

\* finally: close; run() settles
RunFinally ==
    /\ pc = "finally"
    /\ outcome' = IF thrown = "none" THEN "resolved" ELSE "rejected"
    /\ pc' = "idle"
    /\ UNCHANGED <<db, txActive, txSnapshot, now, repo, scanId, stats,
                   fileList, idx, thrown, runs, injected, errorLog, startTotals,
                   history,
                   fileContent, analyzed, handle, inflight>>

\* a second passes on the clock CURRENT_TIMESTAMP reads (a run of the scanner
\* is taken to fit in one second of that clock)
Tick ==
    /\ pc = "idle"
    /\ now < 1 + MaxNow
    /\ now' = now + 1
    /\ UNCHANGED <<db, txActive, txSnapshot, pc, repo, scanId, stats, fileList,
                   idx, thrown, runs, injected, outcome, errorLog, startTotals, history,
                   fileContent, analyzed, handle, inflight>>

\* the state after construction, on a database holding d, with str the
\* text an analyzer function is about to be applied to
InitWith(d, str) ==
    /\ db = d
    /\ txActive = FALSE
    /\ txSnapshot = d
    /\ now = 1
    /\ pc = "idle"
    /\ repo = UNDEFINED
    /\ scanId = UNDEFINED
    /\ stats = FreshStats
    /\ fileList = <<>>
    /\ idx = 0
    /\ thrown = "none"
    /\ runs = 0
    /\ injected = 0
    /\ outcome = "none"
    /\ errorLog = <<>>
    /\ startTotals = <<0, 0, 0>>
    /\ history = <<>>
    /\ fileContent = str
    /\ analyzed = <<>>
    /\ handle = [db |-> "null", isConnected |-> FALSE]
    /\ inflight = <<>>

\* the state after construction, on a database holding d
InitDb(d) == InitWith(d, <<>>)

\* the database file as schema.sql creates it
Init == InitDb(EmptyDb)

Next ==
    \/ \E tree \in Trees, fault \in {"none", "connect", "startScan", "readdir"} :
           RunStart(tree, fault)
    \/ ScanFile
    \/ \E fault \in BOOLEAN : CalculateStatistics(fault)
    \/ GenerateOutputFiles
    \/ RunCatch
    \/ RunFinally
    \/ Tick

Spec == Init /\ [][Next]_vars

----------------------------------------------------------------------------
(* Properties of the scanner *)

\* the Scan row of the current run
ScanRow == db.scan_history[scanId]

\* the run has started a scan and has not yet been replaced by a later run
InRun == runs > 0 /\ scanId # UNDEFINED

\* the File rows stored for a (repository, path)
RowsWithKey(repoId, path) ==
    {i \in 1..Len(db.files) :
        db.files[i].repo_metadata_id = repoId /\ db.files[i].path = path}

EdgesOfFile(d, fileId) ==
    {i \in 1..Len(d.dependencies) : d.dependencies[i].from_file_id = fileId}

\* C1: per-file atomicity.  In every iteration of the scan loop, either the
\* file's File row and all of its Function, Import, Export and Dependency
\* rows are written, or (when analyzeFile raised an error) no row is written.
C1_PerFileAtomicity ==
    [][ (pc = "scan" /\ idx' = idx + 1) =>
          LET f == fileList[idx + 1]
          IN \/ /\ stats'.errorsCount = stats.errorsCount + 1
                /\ db' = db
             \/ /\ stats'.errorsCount = stats.errorsCount
                /\ getFileByPath(db', repo, f.path) # NULL
                /\ Len(db'.functions) = Len(db.functions) + Len(f.functions)
                /\ Len(db'.imports) = Len(db.imports) + Len(f.imports)
                /\ Len(db'.exports) = Len(db.exports) + Len(f.exports)
                /\ Len(db'.dependencies) = Len(db.dependencies) + Len(f.imports)
      ]_vars

\* C2: first full scan of a tree holding a.js (import { x } from './util.js')
\* and its sibling util.js, no error raised: once the loop has gone through
\* both files, exactly one Dependency edge leaves a.js and it is resolved to
\* util.js, whatever the traversal order.
C2_SiblingImportResolved ==
    (runs = 1 /\ injected = 0 /\ Len(fileList) = 2 /\ idx = 2) =>
        LET a == getFileByPath(db, repo, FileA.path)
            u == getFileByPath(db, repo, FileUtil.path)
        IN /\ a # NULL
           /\ u # NULL
           /\ Cardinality(EdgesOfFile(db, a)) = 1
           /\ \A i \in EdgesOfFile(db, a) :
                 /\ db.dependencies[i].is_resolved
                 /\ db.dependencies[i].to_file_id = u

\* C3: a run in which no file read, analysis step or storage write raised an
\* error ends with its Scan row 'completed', carrying the final counters.
C3_CleanRunCompletes ==
    (pc = "idle" /\ InRun /\ injected = 0) =>
        /\ ScanRow.status = "completed"
        /\ ScanRow.files_scanned = stats.filesScanned
        /\ ScanRow.lines_scanned = stats.linesScanned
        /\ ScanRow.errors_count = stats.errorsCount

\* C4: a storage failure raised while a file's rows are written aborts the
\* walk: no later file is analyzed, the Scan is marked failed and run()
\* rejects with that error.
C4_StorageFailureAborts ==
    \A k \in 1..Len(errorLog) :
        errorLog[k].kind = "storage" =>
            /\ idx = errorLog[k].file
            /\ pc # "scan"
            /\ thrown # "none"
            /\ pc = "idle" => (ScanRow.status = "failed" /\ outcome = "rejected")

\* C5: an analysis error on one file is caught per file: it is counted exactly
\* once, the loop goes on through every remaining enumerated file, and the
\* Scan is not failed on its account (the loop leaves the Scan 'running' and
\* no analysis error ever becomes the error run() propagates).
C5_AnalysisErrorIsolated ==
    /\ stats.errorsCount = Len(errorLog)
    /\ \A j, k \in 1..Len(errorLog) :
          errorLog[j].file = errorLog[k].file => j = k
    /\ stats.filesScanned + stats.errorsCount = idx
    /\ (runs > 0 /\ pc # "scan") => idx = Len(fileList)
    /\ (pc = "scan") => (ScanRow.status = "running" /\ thrown = "none")
    /\ thrown \in {"none", "Failed to connect to database", "Execute error",
                   "ENOENT", "Query error",
                   "TypeError: fs.existsSync is not a function"}

\* an analysis error was caught on one file and a later file was scanned
C5_Witness ==
    /\ \E k \in 1..Len(errorLog) :
          errorLog[k].kind = "analysis" /\ errorLog[k].file < idx
    /\ stats.filesScanned >= 1
    /\ stats.errorsCount = 1
    /\ pc = "scan"

\* C6: when a run ends with its Scan 'failed', the File rows of the files
\* it had processed are still stored, and the Repository's totals
\* (total_files, total_lines, last_updated) are those from before the run.
C6_FailedRunKeepsTotals ==
    (pc = "idle" /\ InRun /\ ScanRow.status = "failed") =>
        /\ \A i \in 1..idx :
              (\A k \in 1..Len(errorLog) : errorLog[k].file # i) =>
                  getFileByPath(db, repo, fileList[i].path) # NULL
        /\ LET row == db.repository_metadata[repo]
           IN <<row.total_files, row.total_lines, row.last_updated>> = startTotals

\* the enumerated files the loop has been through without an error
ScannedFiles ==
    {i \in 1..idx : \A k \in 1..Len(errorLog) : errorLog[k].file # i}

\* C29: once scanRepository is through on a fresh mapper, filesScanned +
\* errorsCount is the number of files enumerated, every file having been
\* counted once, as scanned or as an error, and linesScanned is the sum of
\* the line counts of the files counted as scanned.
C29_CountersAddUp ==
    /\ stats.filesScanned = Cardinality(ScannedFiles)
    /\ stats.errorsCount = idx - Cardinality(ScannedFiles)
    /\ stats.linesScanned =
          SumSeq([i \in 1..idx |->
                     IF i \in ScannedFiles THEN fileList[i].lines_count ELSE 0])
    /\ (runs > 0 /\ pc # "scan") =>
          stats.filesScanned + stats.errorsCount = Len(fileList)

\* scanRepository is through two enumerated files: one was scanned, the
\* other raised an error
C29_Witness ==
    /\ pc = "generate"
    /\ Len(fileList) = 2
    /\ stats.filesScanned = 1
    /\ stats.errorsCount = 1
    /\ stats.linesScanned = fileList[CHOOSE i \in ScannedFiles : TRUE].lines_count

PathsOf(tree) == {tree[i].path : i \in 1..Len(tree)}

\* C12: a scan never removes a File row.  In every step of every sequence
\* of scans each File row keeps its id, repository and path (also when the
\* file is not in the tree the scan walks), and the store holds at most one
\* row per (repository, path).
C12_FileRowsNeverRemoved ==
    [][/\ Len(db'.files) >= Len(db.files)
       /\ \A i \in 1..Len(db.files) :
             /\ db'.files[i].repo_metadata_id = db.files[i].repo_metadata_id
             /\ db'.files[i].path = db.files[i].path
             /\ db'.files[i].created_at = db.files[i].created_at
       /\ \A i, j \in 1..Len(db'.files) :
             (/\ db'.files[i].repo_metadata_id = db'.files[j].repo_metadata_id
              /\ db'.files[i].path = db'.files[j].path) => i = j]_vars

\* a second scan walked a tree without a file the first scan indexed and
\* re-analyzed the other one: both rows are there, just one was updated
C12_Witness ==
    /\ runs = 2
    /\ pc = "idle"
    /\ stats.filesScanned = 1
    /\ Len(fileList) = 1
    /\ Len(db.files) = 2
    /\ \E i \in 1..2 : db.files[i].path \notin PathsOf(fileList)
    /\ \E i \in 1..2 : /\ db.files[i].path \in PathsOf(fileList)
                        /\ db.files[i].updated_at > db.files[i].created_at

\* the rows of a child table that belong to a file
ChildrenOf(table, fileId) ==
    {i \in 1..Len(table) : table[i].file_id = fileId}

\* table2 is table1 followed by n rows, appended for file fileId
AppendedFor(table1, table2, n, fileId) ==
    /\ Len(table2) = Len(table1) + n
    /\ SubSeq(table2, 1, Len(table1)) = table1
    /\ \A i \in (Len(table1) + 1)..Len(table2) : table2[i].file_id = fileId

\* the step is an iteration of scanRepository's loop whose analyzeFile
\* returned without raising
CleanPass ==
    /\ pc = "scan"
    /\ idx' = idx + 1
    /\ stats'.filesScanned = stats.filesScanned + 1

\* C13: child rows accumulate.  Every pass that analyzes a file without
\* error leaves one File row for it and appends f Function, i Import,
\* e Export and i Dependency rows of that file to the rows already stored,
\* none of which is replaced, updated or dropped as a duplicate; so k such
\* passes leave k*f, k*i, k*e and k*i rows.
C13_ChildRowsAccumulate ==
    [][CleanPass =>
         LET f == fileList[idx + 1]
             fileId == getFileByPath(db', repo, f.path)
         IN /\ fileId # NULL
            /\ RowsWithKey(repo, f.path) \in {{}, {fileId}}
            /\ Len(db'.files) = Len(db.files)
                   + (IF RowsWithKey(repo, f.path) = {} THEN 1 ELSE 0)
            /\ AppendedFor(db.functions, db'.functions, Len(f.functions), fileId)
            /\ \A i \in 1..Len(f.functions) :
                   db'.functions[Len(db.functions) + i].name = f.functions[i].name
            /\ AppendedFor(db.imports, db'.imports, Len(f.imports), fileId)
            /\ AppendedFor(db.exports, db'.exports, Len(f.exports), fileId)
            /\ Len(db'.dependencies) = Len(db.dependencies) + Len(f.imports)
            /\ SubSeq(db'.dependencies, 1, Len(db.dependencies))
                   = db.dependencies
            /\ \A i \in (Len(db.dependencies) + 1)..Len(db'.dependencies) :
                   db'.dependencies[i].from_file_id = fileId]_vars

\* two passes have analyzed a.js (2 functions, 1 import, 1 export) without
\* error: one File row, 4 Function, 2 Import, 2 Export and 2 Dependency rows
C13_Witness ==
    /\ runs = 2
    /\ injected = 0
    /\ pc = "scan"
    /\ idx = Len(fileList)
    /\ \E fileId \in RowsWithKey(repo, FileA.path) :
          /\ RowsWithKey(repo, FileA.path) = {fileId}
          /\ Cardinality(ChildrenOf(db.functions, fileId)) = 2 * 2
          /\ Cardinality(ChildrenOf(db.imports, fileId)) = 2 * 1
          /\ Cardinality(ChildrenOf(db.exports, fileId)) = 2 * 1
          /\ Cardinality(EdgesOfFile(db, fileId)) = 2 * 1

----------------------------------------------------------------------------
(* Direct use of the access layer: repositories and files.  history keeps  *)
(* each call with its arguments and the value it resolved with.            *)

mapperState ==
    <<pc, repo, scanId, stats, fileList, idx, thrown, runs, injected, outcome,
      errorLog, startTotals, fileContent, analyzed, handle, inflight>>

RepoOwners == {DefaultOwner, "other-owner"}
RepoNames == {DefaultName, "other-repo"}
RepoUrls == {DefaultUrl, "git@github.com:statikfintechllc/other-repo.git"}

\* fileData records a caller may pass: two paths, three contents
MetaV1 ==
    [name |-> "a.js", file_type |-> "JavaScript", extension |-> "js",
     size_bytes |-> 60, lines_count |-> 3, code_lines |-> 2,
     comment_lines |-> 1, blank_lines |-> 0, hash |-> "sha-a",
     purpose |-> "JavaScript module", complexity_score |-> 3]

MetaV2 ==
    [name |-> "a.js", file_type |-> "JavaScript", extension |-> "js",
     size_bytes |-> 75, lines_count |-> 5, code_lines |-> 3,
     comment_lines |-> 1, blank_lines |-> 1, hash |-> "sha-a2",
     purpose |-> "Core game logic and UI interactions",
     complexity_score |-> 0]

MetaV3 ==
    [name |-> "A.JS", file_type |-> "js", extension |-> "JS",
     size_bytes |-> 0, lines_count |-> 1, code_lines |-> 0,
     comment_lines |-> 0, blank_lines |-> 1, hash |-> "sha-0",
     purpose |-> "", complexity_score |-> 5]

FileMetas == {MetaV1, MetaV2, MetaV3}
FilePaths == {<<"a.js">>, <<"lib", "a.js">>}

WithPath(meta, path) ==
    [name |-> meta.name, path |-> path, file_type |-> meta.file_type,
     extension |-> meta.extension, size_bytes |-> meta.size_bytes,
     lines_count |-> meta.lines_count, code_lines |-> meta.code_lines,
     comment_lines |-> meta.comment_lines, blank_lines |-> meta.blank_lines,
     hash |-> meta.hash, purpose |-> meta.purpose,
     complexity_score |-> meta.complexity_score]

\* a database on which the scanner's Repository row has been created
InitRepo ==
    InitDb(getOrCreateRepository(EmptyDb, DefaultOwner, DefaultName,
                                 DefaultUrl, 1).db)

CallGetOrCreateRepository ==
    /\ Len(history) < MaxCalls
    /\ \E owner \in RepoOwners, name \in RepoNames, url \in RepoUrls :
         LET r == getOrCreateRepository(db, owner, name, url, now)
         IN /\ db' = r.db
            /\ history' = Append(history,
                   [op |-> "getOrCreateRepository", repoId |-> NULL,
                    arg |-> <<owner, name, url>>, ret |-> r.ret])
    /\ UNCHANGED <<txActive, txSnapshot, now>>
    /\ UNCHANGED mapperState

CallUpsertFile ==
    /\ Len(history) < MaxCalls
    /\ \E repoId \in 1..Len(db.repository_metadata),
          path \in FilePaths, meta \in FileMetas :
         LET r == upsertFile(db, repoId, WithPath(meta, path), now)
         IN /\ db' = r.db
            /\ history' = Append(history,
                   [op |-> "upsertFile", repoId |-> repoId,
                    arg |-> WithPath(meta, path), ret |-> r.ret,
                    raised |-> r.error])
    /\ UNCHANGED <<txActive, txSnapshot, now>>
    /\ UNCHANGED mapperState

NextFiles == CallGetOrCreateRepository \/ CallUpsertFile \/ Tick

SpecFiles == InitRepo /\ [][NextFiles]_vars

UpsertCalls == {k \in 1..Len(history) : history[k].op = "upsertFile"}

SameKey(j, k) ==
    /\ history[j].repoId = history[k].repoId
    /\ history[j].arg.path = history[k].arg.path

\* C7: upsertFile is idempotent on identity.  For any two upsertFile calls
\* with the same (repository, path), both return the same id, the store
\* holds exactly one File row for the key, and every metadata column of
\* that row has the value given in the latest call for the key.
C7_UpsertIdempotent ==
    \A k \in UpsertCalls :
        /\ \A j \in UpsertCalls : SameKey(j, k) => history[j].ret = history[k].ret
        /\ RowsWithKey(history[k].repoId, history[k].arg.path) = {history[k].ret}
        /\ (\A j \in UpsertCalls : SameKey(j, k) => j <= k) =>
              LET c == db.files[history[k].ret].cols
                  given == history[k].arg
              IN /\ c.name = given.name
                 /\ c.file_type = given.file_type
                 /\ c.extension = given.extension
                 /\ c.size_bytes = given.size_bytes
                 /\ c.lines_count = given.lines_count
                 /\ c.code_lines = given.code_lines
                 /\ c.comment_lines = given.comment_lines
                 /\ c.blank_lines = given.blank_lines
                 /\ c.hash = given.hash
                 /\ c.purpose = given.purpose
                 /\ c.complexity_score = given.complexity_score

RepositoryCalls ==
    {k \in 1..Len(history) : history[k].op = "getOrCreateRepository"}

RowsOfPair(d, owner, name) ==
    {i \in 1..Len(d.repository_metadata) :
        /\ d.repository_metadata[i].repo_owner = owner
        /\ d.repository_metadata[i].repo_name = name}

\* C11: getOrCreateRepository is get-or-create on (owner, name).  Every
\* sequential call returns the id of the only Repository row of its pair,
\* the same id as every earlier call for the pair whatever their urls; a
\* call that finds the row leaves the whole store unchanged, and a call
\* that does not find it appends exactly one row carrying its arguments.
C11_RepositoryUnique ==
    [][(/\ Len(history') = Len(history) + 1
        /\ Last(history').op = "getOrCreateRepository")
       => LET call == Last(history')
              owner == call.arg[1]
              name == call.arg[2]
              before == RowsOfPair(db, owner, name)
          IN /\ RowsOfPair(db', owner, name) = {call.ret}
             /\ \A k \in RepositoryCalls :
                    (history[k].arg[1] = owner /\ history[k].arg[2] = name)
                        => history[k].ret = call.ret
             /\ before # {} => db' = db
             /\ before = {} =>
                    /\ Len(db'.repository_metadata)
                           = Len(db.repository_metadata) + 1
                    /\ SubSeq(db'.repository_metadata, 1,
                              Len(db.repository_metadata))
                           = db.repository_metadata
                    /\ db'.repository_metadata[call.ret].repo_url = call.arg[3]
                    /\ [db' EXCEPT !.repository_metadata = <<>>]
                           = [db EXCEPT !.repository_metadata = <<>>]]_vars

\* a pair other than the scanner's was created by one call and asked for
\* again with another url, and the stored url is still the first call's
C11_Witness ==
    \E j, k \in RepositoryCalls :
        /\ j < k
        /\ history[j].arg[1] = history[k].arg[1]
        /\ history[j].arg[2] = history[k].arg[2]
        /\ history[j].arg[3] # history[k].arg[3]
        /\ history[j].ret = history[k].ret
        /\ history[j].ret > 1
        /\ db.repository_metadata[history[j].ret].repo_url = history[j].arg[3]

\* C19: the full-text index follows its tables.  A File row is returned by
\* searchFiles for a word exactly when the word is a whole word of its
\* current name, path or purpose (so after upsertFile has updated the row,
\* words found only in the old values no longer return it), and a Function
\* row by searchFunctions exactly for the words of its name.
C19_SearchFollowsRows ==
    /\ \A i \in 1..Len(db.files) :
          \A word \in UNION {db.files_fts[j] : j \in 1..Len(db.files)}
                       \cup FileWords(db.files[i].path, db.files[i].cols) :
              (i \in searchFiles(db, word))
                  <=> (word \in FileWords(db.files[i].path, db.files[i].cols))
    /\ \A i \in 1..Len(db.functions) :
          \A word \in UNION {db.functions_fts[j] : j \in 1..Len(db.functions)}
                       \cup FtsWords(db.functions[i].name) :
              (i \in searchFunctions(db, word))
                  <=> (word \in FtsWords(db.functions[i].name))

----------------------------------------------------------------------------
(* Direct use of the access layer: the scan history *)

ScanCounts == {<<0, 0, 0>>, <<2, 4, 1>>}

CallStartScan ==
    /\ Len(history) < MaxCalls
    /\ \E repoId \in 1..Len(db.repository_metadata) :
         LET r == startScan(db, repoId, "full", now)
         IN /\ db' = r.db
            /\ history' = Append(history,
                   [op |-> "startScan", repoId |-> repoId, arg |-> "full",
                    ret |-> r.ret])
    /\ UNCHANGED <<txActive, txSnapshot, now>>
    /\ UNCHANGED mapperState

CallCompleteScan ==
    /\ Len(history) < MaxCalls
    /\ \E id \in 1..Len(db.scan_history), c \in ScanCounts :
         /\ db' = completeScan(db, id, c[1], c[2], c[3], now)
         /\ history' = Append(history,
                [op |-> "completeScan", repoId |-> NULL, arg |-> <<id>> \o c,
                 ret |-> NULL])
    /\ UNCHANGED <<txActive, txSnapshot, now>>
    /\ UNCHANGED mapperState

CallFailScan ==
    /\ Len(history) < MaxCalls
    /\ \E id \in 1..Len(db.scan_history) :
         /\ db' = failScan(db, id, now)
         /\ history' = Append(history,
                [op |-> "failScan", repoId |-> NULL, arg |-> <<id>>,
                 ret |-> NULL])
    /\ UNCHANGED <<txActive, txSnapshot, now>>
    /\ UNCHANGED mapperState

NextScans ==
    \/ CallGetOrCreateRepository
    \/ CallStartScan
    \/ CallCompleteScan
    \/ CallFailScan
    \/ Tick

SpecScans == InitRepo /\ [][NextScans]_vars

Sealed(row) == row.status \in {"completed", "failed"}

\* C10: once a Scan row is 'completed' or 'failed', no later operation
\* changes its status, counts or completion time, and no Scan row is deleted.
C10_SealedScansImmutable ==
    [][ /\ Len(db'.scan_history) >= Len(db.scan_history)
        /\ \A i \in 1..Len(db.scan_history) :
              Sealed(db.scan_history[i]) =>
                  db'.scan_history[i] = db.scan_history[i]
      ]_vars

----------------------------------------------------------------------------
(* Transactions *)

\* BEGIN TRANSACTION on the connection
beginTransaction(c) ==
    IF c.txActive
    THEN [c EXCEPT !.error = "cannot start a transaction within a transaction"]
    ELSE [c EXCEPT !.txActive = TRUE, !.txSnapshot = c.db]

\* COMMIT
commit(c) ==
    IF ~c.txActive
    THEN [c EXCEPT !.error = "cannot commit - no transaction is active"]
    ELSE [c EXCEPT !.txActive = FALSE]

\* ROLLBACK
rollback(c) ==
    IF ~c.txActive
    THEN [c EXCEPT !.error = "cannot rollback - no transaction is active"]
    ELSE [c EXCEPT !.txActive = FALSE, !.db = c.txSnapshot]

Conn == [db |-> db, txActive |-> txActive, txSnapshot |-> txSnapshot,
         error |-> "none"]

\* the callback of the documented usage: upsertFile, addFunction, addExport
BodyWrites(repoId, fileData) ==
    <<[op |-> "upsertFile", repoId |-> repoId, data |-> fileData],
      [op |-> "addFunction", data |-> [name |-> "add", complexity |-> 1]],
      [op |-> "addExport",
       data |-> [exported_name |-> "add", export_type |-> "named"]]>>

\* the first n statements of the callback, run on database d at time t,
\* up to the first one that rejects
RECURSIVE RunBody(_, _, _, _, _)
RunBody(d, fileId, ws, n, t) ==
    IF n = 0 THEN [db |-> d, error |-> "none"]
    ELSE LET w == Head(ws)
         IN IF w.op = "upsertFile"
            THEN LET up == upsertFile(d, w.repoId, w.data, t)
                 IN IF up.error # "none"
                    THEN [db |-> d, error |-> up.error]
                    ELSE RunBody(up.db, up.ret, Tail(ws), n - 1, t)
            ELSE RunBody(ApplyWrite(d, NULL, fileId, <<>>, w), fileId,
                         Tail(ws), n - 1, t)

BeginFault == 0
CommitFault == 5

\* where a call of transaction(callback) can raise: BEGIN (0), the callback
\* after k - 1 of its writes (k in 1..4), or COMMIT (5)
TxFaults == {NoFault} \cup 0..5

\* transaction(callback): try { begin; callback; commit } catch { rollback;
\* throw }.  raised is the error of the try block, rejected the error the
\* returned promise rejects with.
transaction(c, ws, fault, t) ==
    LET begun == beginTransaction(c)
        beginRaised ==
            IF begun.error # "none" THEN begun.error
            ELSE IF fault = BeginFault THEN "SQLITE_BUSY: database is locked"
            ELSE "none"
        n == IF fault \in 1..4 THEN fault - 1 ELSE Len(ws)
        body == RunBody(begun.db, NULL, ws, n, t)
        ran == [begun EXCEPT !.db = body.db]
        bodyRaised == IF body.error # "none" THEN body.error
                      ELSE IF fault \in 1..4 THEN "callback error"
                      ELSE "none"
        commitRaised ==
            IF fault = CommitFault THEN "SQLITE_BUSY: database is locked"
            ELSE "none"
        \* the connection and the error when the try block is left
        tried ==
            IF beginRaised # "none" THEN [conn |-> c, raised |-> beginRaised]
            ELSE IF bodyRaised # "none" THEN [conn |-> ran, raised |-> bodyRaised]
            ELSE IF commitRaised # "none"
            THEN [conn |-> ran, raised |-> commitRaised]
            ELSE [conn |-> commit(ran), raised |-> "none"]
    IN IF tried.raised = "none"
       THEN [conn |-> tried.conn, raised |-> "none", rejected |-> "none"]
       ELSE LET rolled == rollback(tried.conn)
            IN [conn |-> rolled, raised |-> tried.raised,
                rejected |-> IF rolled.error # "none" THEN rolled.error
                             ELSE tried.raised]

CallTransaction ==
    /\ Len(history) < MaxCalls
    /\ \E repoId \in 1..Len(db.repository_metadata), meta \in {MetaV1, MetaV2},
          fault \in TxFaults :
         \E r \in {transaction(Conn,
                      BodyWrites(repoId, WithPath(meta, <<"a.js">>)), fault, now)} :
            /\ db' = r.conn.db
            /\ txActive' = r.conn.txActive
            /\ txSnapshot' = r.conn.txSnapshot
            /\ history' = Append(history,
                   [op |-> "transaction", repoId |-> repoId, arg |-> fault,
                    raised |-> r.raised, ret |-> r.rejected])
    /\ UNCHANGED now
    /\ UNCHANGED mapperState

\* beginTransaction(), commit() or rollback() called by the client itself
CallTxStatement ==
    /\ Len(history) < MaxCalls
    /\ \E stmt \in {"beginTransaction", "commit", "rollback"} :
         LET r == CASE stmt = "beginTransaction" -> beginTransaction(Conn)
                    [] stmt = "commit" -> commit(Conn)
                    [] stmt = "rollback" -> rollback(Conn)
         IN /\ db' = r.db
            /\ txActive' = r.txActive
            /\ txSnapshot' = r.txSnapshot
            /\ history' = Append(history,
                   [op |-> stmt, repoId |-> NULL, arg |-> NULL,
                    raised |-> r.error, ret |-> r.error])
    /\ UNCHANGED now
    /\ UNCHANGED mapperState

NextTx ==
    \/ CallGetOrCreateRepository
    \/ CallUpsertFile
    \/ CallTxStatement
    \/ CallTransaction

SpecTx == InitRepo /\ [][NextTx]_vars

\* C8: when begin, the callback or commit raises an error e, transaction()
\* leaves the store as it was before the call, leaves no transaction open,
\* and rejects with e.
C8_TransactionRollsBack ==
    [][ (/\ Len(history') = Len(history) + 1
         /\ Last(history').op = "transaction"
         /\ Last(history').raised # "none") =>
            /\ db' = db
            /\ txActive' = FALSE
            /\ Last(history').ret = Last(history').raised
      ]_vars

----------------------------------------------------------------------------
(* Dependency resolution on an index of files *)

\* the files an import of "util" or "util.js" can resolve to, per repository
CandidateFiles ==
    <<[repoId |-> 1, path |-> <<"util">>],
      [repoId |-> 1, path |-> <<"util.js">>],
      [repoId |-> 1, path |-> <<"util.json">>],
      [repoId |-> 1, path |-> <<"util", "index.js">>],
      [repoId |-> 2, path |-> <<"util">>],
      [repoId |-> 2, path |-> <<"util.js">>]>>

\* the importing files, indexed in every initial state
ImportingFiles ==
    <<[repoId |-> 1, path |-> <<"a.js">>],
      [repoId |-> 1, path |-> <<"lib", "b.js">>],
      [repoId |-> 2, path |-> <<"a.js">>]>>

\* the source strings of the import statements: './util', './util.js',
\* 'util', 'util.js', '/util', '../util', '.'
ImportSources ==
    {<<".", "util">>, <<".", "util.js">>, <<"util">>, <<"util.js">>,
     <<"", "util">>, <<"..", "util">>, <<".">>}

\* upsertFile for the files of fs whose index is in keep, in order
RECURSIVE IndexFiles(_, _, _, _)
IndexFiles(d, fs, keep, i) ==
    IF i > Len(fs) THEN d
    ELSE IndexFiles(
             IF i \in keep
             THEN upsertFile(d, fs[i].repoId, WithPath(MetaV1, fs[i].path), 1).db
             ELSE d,
             fs, keep, i + 1)

TwoRepositories ==
    getOrCreateRepository(
        getOrCreateRepository(EmptyDb, DefaultOwner, DefaultName,
                              DefaultUrl, 1).db,
        DefaultOwner, "other-repo", DefaultUrl, 1).db

InitResolve ==
    \E keep \in SUBSET (1..Len(CandidateFiles)) :
        InitDb(IndexFiles(
                   IndexFiles(TwoRepositories, ImportingFiles,
                              1..Len(ImportingFiles), 1),
                   CandidateFiles, keep, 1))

\* analyzeFile's call this.addDependency(fileId, relativePath, imp) for one
\* import statement of an indexed file
CallMapperAddDependency ==
    /\ Len(db.dependencies) < MaxEdges
    /\ \E fileId \in 1..Len(ImportingFiles), from \in ImportSources :
         db' = addDependency(db, db.files[fileId].repo_metadata_id, fileId,
                             db.files[fileId].path,
                             ImportData([from |-> from, import_type |-> "named"]))
    /\ UNCHANGED <<txActive, txSnapshot, now, history>>
    /\ UNCHANGED mapperState

NextResolve == CallMapperAddDependency

SpecResolve == InitResolve /\ [][NextResolve]_vars

\* the four paths probed for an import resolved to base, in probing order
ProbedPaths(base) ==
    <<base,
      [base EXCEPT ![Len(base)] = @ \o ".js"],
      [base EXCEPT ![Len(base)] = @ \o ".json"],
      base \o <<"index.js">>>>

IndexedAs(repoId, path) ==
    {i \in 1..Len(db.files) :
        db.files[i].repo_metadata_id = repoId /\ db.files[i].path = path}

\* the reference resolution of import source p in the file at fromPath
ReferenceTarget(repoId, fromPath, p) ==
    IF Head(p) \notin {"", ".", ".."} THEN {}
    ELSE LET probed == ProbedPaths(PathJoin(PathDirname(fromPath), p))
             hits == {k \in 1..4 : IndexedAs(repoId, probed[k]) # {}}
         IN IF hits = {} THEN {}
            ELSE IndexedAs(repoId,
                           probed[CHOOSE k \in hits : \A j \in hits : k <= j])

----------------------------------------------------------------------------
(* DataMigrator (migrate.js): legacy JSON files into the database *)

MigratorOwner == "statikfintechllc"
MigratorName == "The_GateKeepers_Riddle.Interactive"
MigratorUrl == "https://github.com/statikfintechllc/The_GateKeepers_Riddle.Interactive"

\* path.extname(filePath).slice(1) for the file names of the legacy data
ExtnameSlice1(p) ==
    CASE Last(p) \in {"a.js", "util.js"} -> "js"
      [] OTHER -> ""

\* migrateFiles: the fileInfo built for one entry of repoMap.files
\* calculateHash(content): the SHA-256 digest of the text, kept symbolic
calculateHash(content) == "sha256(" \o content \o ")"

MigratedFileInfo(entry) ==
    [name |-> PathBasename(entry.path), path |-> entry.path,
     file_type |-> ExtnameSlice1(entry.path),
     extension |-> ExtnameSlice1(entry.path),
     size_bytes |-> OrElse(entry.size, 0),
     lines_count |-> OrElse(entry.lines, 0),
     code_lines |-> OrElse(entry.lines, 0),
     comment_lines |-> 0, blank_lines |-> 0,
     hash |-> calculateHash(Last(entry.path) \o entry.sizeText),
     purpose |-> "Unknown", complexity_score |-> 0]

\* migrateFiles: upsertFile for every entry, in order; an entry whose
\* upsertFile rejects is logged and left out of fileIdMap.  keys is the set
\* of paths fileIdMap holds.
RECURSIVE migrateFiles(_, _, _, _, _)
migrateFiles(d, repoId, files, keys, t) ==
    IF files = <<>> THEN [db |-> d, keys |-> keys]
    ELSE LET up == upsertFile(d, repoId, MigratedFileInfo(Head(files)), t)
         IN migrateFiles(up.db, repoId, Tail(files),
                         IF up.error # "none" THEN keys
                         ELSE keys \cup {Head(files).path}, t)

\* fileIdMap[path] after migrateFiles: the id upsertFile returned for the
\* path, undefined for a path that is not a key
fileIdMap(d, repoId, keys, path) ==
    IF path \in keys
    THEN getFileByPath(d, repoId, path)
    ELSE UNDEFINED

\* migrateFunctions: one addFunction per entry whose file was migrated
RECURSIVE migrateFunctions(_, _, _, _)
migrateFunctions(d, repoId, keys, functions) ==
    IF functions = <<>> THEN d
    ELSE LET fileId == fileIdMap(d, repoId, keys, Head(functions).file)
             functionInfo == [name |-> Head(functions).name, complexity |-> 0]
         IN migrateFunctions(
                IF fileId = UNDEFINED THEN d
                ELSE addFunction(d, fileId, functionInfo),
                repoId, keys, Tail(functions))

\* dep.type || 'import'; "" is a type that is missing or empty
DependencyType(dep) == IF dep.type = "" THEN "import" ELSE dep.type

\* migrateDependencies: one addDependency per entry whose source file was
\* migrated; toFileId is fileIdMap[toPath] || null
RECURSIVE migrateDependencies(_, _, _, _)
migrateDependencies(d, repoId, keys, dependencies) ==
    IF dependencies = <<>> THEN d
    ELSE LET dep == Head(dependencies)
             fromFileId == fileIdMap(d, repoId, keys, dep.from)
             toFileId == OrElse(fileIdMap(d, repoId, keys, dep.to), NULL)
         IN migrateDependencies(
                IF fromFileId = UNDEFINED THEN d
                ELSE dbAddDependency(d, fromFileId, toFileId,
                                     DependencyType(dep), dep.to),
                repoId, keys, Tail(dependencies))

\* the statements of migrate() that reject when the database does: BEGIN,
\* the query of migrateComponents (the other statements of the body are in
\* try/catch of their own), COMMIT, completeScan
MigrateFaults == {"beginTransaction", "migrateComponents", "commit",
                  "completeScan"}

\* migrate(): repository metadata, startScan, then files, functions and
\* dependencies inside BEGIN .. COMMIT, then completeScan (its errorsCount
\* argument is omitted and bound as NULL).  An error in the body or in
\* COMMIT is caught, the transaction rolled back and the error rethrown;
\* the outer catch logs it and calls process.exit(1).
migrate(d, legacy, fault, t) ==
    LET r == getOrCreateRepository(d, MigratorOwner, MigratorName,
                                   MigratorUrl, t)
        d1 == updateRepositoryStats(r.db, r.ret, OrElse(legacy.totalFiles, 0),
                                    OrElse(legacy.totalLines, 0), t)
        s == startScan(d1, r.ret, "migration", t)
        m == migrateFiles(s.db, r.ret, legacy.files, {}, t)
        d3 == migrateFunctions(m.db, r.ret, m.keys, legacy.functions)
        d4 == migrateDependencies(d3, r.ret, m.keys, legacy.dependencies)
    IN CASE fault \in {"beginTransaction", "migrateComponents", "commit"} ->
                [db |-> s.db, scanId |-> s.ret, exitCode |-> 1]
         [] fault = "completeScan" ->
                [db |-> d4, scanId |-> s.ret, exitCode |-> 1]
         [] OTHER ->
                [db |-> completeScan(d4, s.ret, Cardinality(m.keys),
                                     OrElse(legacy.totalLines, 0), NULL, t),
                 scanId |-> s.ret, exitCode |-> 0]

\* contents of repo-map.json and code-index.json
LegacyA ==
    [path |-> <<"a.js">>, size |-> 60, sizeText |-> "60", lines |-> 3]
LegacyUtil ==
    [path |-> <<"util.js">>, size |-> UNDEFINED, sizeText |-> "undefined",
     lines |-> UNDEFINED]

LegacyData ==
    {[totalFiles |-> 2, totalLines |-> 4,
      files |-> <<LegacyA, LegacyUtil>>,
      functions |-> <<[name |-> "add", file |-> <<"a.js">>]>>,
      dependencies |-> <<[from |-> <<"a.js">>, to |-> <<"util.js">>,
                          type |-> ""]>>],
     [totalFiles |-> UNDEFINED, totalLines |-> UNDEFINED,
      files |-> <<LegacyA>>,
      functions |-> <<[name |-> "x", file |-> <<"util.js">>]>>,
      dependencies |-> <<[from |-> <<"a.js">>, to |-> <<"util.js">>,
                          type |-> "require"],
                         [from |-> <<"util.js">>, to |-> <<"a.js">>,
                          type |-> "import"]>>]}

----------------------------------------------------------------------------
(* The callers of the access layer side by side: the scanner's analyzeFile, *)
(* the migration tool, and direct calls of addFunction and addDependency.   *)

\* functionData records of direct callers: complexity given, or left out
FunctionDatas ==
    {[name |-> "render", complexity |-> 4],
     [name |-> "render", complexity |-> UNDEFINED]}

\* toFileId arguments of direct callers: an id, null, or left out
ToFileIds == {NULL, UNDEFINED} \cup 1..Len(db.files)

CallAnalyzeFile ==
    /\ Len(history) < MaxCalls
    /\ \E f \in TreeFiles :
         /\ db' = analyzeFile(db, 1, f, NoFault, now).db
         /\ history' = Append(history,
                [op |-> "analyzeFile", repoId |-> 1, arg |-> f.path,
                 ret |-> NULL])
    /\ UNCHANGED <<txActive, txSnapshot, now>>
    /\ UNCHANGED mapperState

CallMigrate ==
    /\ Len(history) < MaxCalls
    /\ ~txActive
    /\ \E legacy \in LegacyData, fault \in {"none"} \cup MigrateFaults :
         LET r == migrate(db, legacy, fault, now)
         IN /\ db' = r.db
            /\ history' = Append(history,
                   [op |-> "migrate", repoId |-> NULL, arg |-> legacy.files,
                    scanId |-> r.scanId, ret |-> r.exitCode])
    /\ UNCHANGED <<txActive, txSnapshot, now>>
    /\ UNCHANGED mapperState

CallAddFunction ==
    /\ Len(history) < MaxCalls
    /\ \E fileId \in 1..Len(db.files), functionData \in FunctionDatas :
         /\ db' = addFunction(db, fileId, functionData)
         /\ history' = Append(history,
                [op |-> "addFunction", repoId |-> NULL, arg |-> functionData,
                 ret |-> Len(db.functions) + 1])
    /\ UNCHANGED <<txActive, txSnapshot, now>>
    /\ UNCHANGED mapperState

CallAddDependency ==
    /\ Len(history) < MaxCalls
    /\ \E fromFileId \in 1..Len(db.files), toFileId \in ToFileIds :
         /\ db' = dbAddDependency(db, fromFileId, toFileId, "import",
                                  <<".", "util.js">>)
         /\ history' = Append(history,
                [op |-> "addDependency", repoId |-> NULL,
                 arg |-> <<fromFileId, toFileId>>,
                 ret |-> Len(db.dependencies) + 1])
    /\ UNCHANGED <<txActive, txSnapshot, now>>
    /\ UNCHANGED mapperState

NextCallers ==
    \/ CallAnalyzeFile
    \/ CallMigrate
    \/ CallAddFunction
    \/ CallAddDependency
    \/ Tick

SpecCallers == InitRepo /\ [][NextCallers]_vars

\* C14: every Dependency row has is_resolved true exactly when its target
\* file is non-null, whether the scanner, the migration tool or a direct
\* addDependency call (toFileId an id, null or omitted) inserted it.
C14_ResolvedIffTarget ==
    \A i \in 1..Len(db.dependencies) :
        db.dependencies[i].is_resolved
            <=> (db.dependencies[i].to_file_id # NULL)


\* C17: every Function row has a complexity of at least 1, whether the
\* scanner, the migration tool, or an addFunction call without a complexity
\* field inserted it.
C17_FunctionComplexityAtLeastOne ==
    \A i \in 1..Len(db.functions) : db.functions[i].complexity >= 1

----------------------------------------------------------------------------
(* Text.  A string the analyzers look into is a sequence of one-character  *)
(* strings, so "/*x" is <<"/", "*", "x">>; String methods are operators on  *)
(* such sequences.                                                          *)

MaxLines == 3

WhiteSpace == {" ", "\t", "\r", "\n"}

\* String.prototype.startsWith / endsWith / includes
StartsWith(str, p) == Len(str) >= Len(p) /\ SubSeq(str, 1, Len(p)) = p
EndsWith(str, p) ==
    Len(str) >= Len(p) /\ SubSeq(str, Len(str) - Len(p) + 1, Len(str)) = p
Includes(str, p) ==
    \E i \in 1..(Len(str) - Len(p) + 1) : SubSeq(str, i, i + Len(p) - 1) = p

\* String.prototype.trim
RECURSIVE TrimStart(_)
TrimStart(str) ==
    IF str # <<>> /\ Head(str) \in WhiteSpace THEN TrimStart(Tail(str)) ELSE str

RECURSIVE TrimEnd(_)
TrimEnd(str) ==
    IF str # <<>> /\ Last(str) \in WhiteSpace THEN TrimEnd(Front(str)) ELSE str

Trim(str) == TrimEnd(TrimStart(str))

\* content.split('\n'): the pieces between line feeds, at least one piece
RECURSIVE Split(_, _)
Split(str, piece) ==
    IF str = <<>> THEN <<piece>>
    ELSE IF Head(str) = "\n" THEN <<piece>> \o Split(Tail(str), <<>>)
    ELSE Split(Tail(str), Append(piece, Head(str)))

\* lines.join('\n')
RECURSIVE Join(_)
Join(lines) ==
    IF Len(lines) = 0 THEN <<>>
    ELSE IF Len(lines) = 1 THEN lines[1]
    ELSE lines[1] \o <<"\n">> \o Join(Tail(lines))

\* all sequences of 1..n elements of S
SeqsUpTo(S, n) == UNION {[1..k -> S] : k \in 1..n}

----------------------------------------------------------------------------
(* RepositoryMapper.analyzeJavaScript: line classification *)

\* a classification that does not count the line closing a block comment
CountLineDropsBlockEnd(result, trimmed, inBlockComment) ==
    IF trimmed = <<>>
    THEN [result EXCEPT !.blankLines = @ + 1]
    ELSE IF StartsWith(trimmed, <<"/", "/">>)
    THEN [result EXCEPT !.commentLines = @ + 1]
    ELSE IF StartsWith(trimmed, <<"/", "*">>) \/ inBlockComment
    THEN IF Includes(trimmed, <<"*", "/">>)
         THEN [result EXCEPT !.inBlockComment = FALSE]
         ELSE [result EXCEPT !.commentLines = @ + 1, !.inBlockComment = TRUE]
    ELSE [result EXCEPT !.codeLines = @ + 1]

\* the body of the loop "Count line types" for one line; result carries the
\* three counters and the flag inBlockComment
CountLine(result, trimmed, inBlockComment) ==
    IF trimmed = <<>>
    THEN [result EXCEPT !.blankLines = @ + 1]
    ELSE IF StartsWith(trimmed, <<"/", "/">>)
    THEN [result EXCEPT !.commentLines = @ + 1]
    ELSE IF StartsWith(trimmed, <<"/", "*">>) \/ inBlockComment
    THEN [result EXCEPT !.commentLines = @ + 1,
                        !.inBlockComment = ~Includes(trimmed, <<"*", "/">>)]
    ELSE [result EXCEPT !.codeLines = @ + 1]

RECURSIVE CountLineTypes(_, _)
CountLineTypes(lines, result) ==
    IF lines = <<>> THEN result
    ELSE CountLineTypes(Tail(lines),
                        CountLine(result, Trim(Head(lines)), result.inBlockComment))

\* analyzeFile for a script: lineCount and the counters it stores as
\* lines_count, code_lines, comment_lines and blank_lines
LineCountsOf(str) ==
    LET lines == Split(str, <<>>)
        result == CountLineTypes(lines,
                      [codeLines |-> 0, commentLines |-> 0, blankLines |-> 0,
                       inBlockComment |-> FALSE])
    IN [lines_count |-> Len(lines), code_lines |-> result.codeLines,
        comment_lines |-> result.commentLines,
        blank_lines |-> result.blankLines]

\* lines of script files: '', '  ', 'x', '//x', '/*', '/*x*/', '*/', 'x*/',
\* ' /*x', 'x/*', '/*/'
ScriptLines ==
    {<<>>,
     <<" ", " ">>,
     <<"x">>,
     <<"/", "/", "x">>,
     <<"/", "*">>,
     <<"/", "*", "x", "*", "/">>,
     <<"*", "/">>,
     <<"x", "*", "/">>,
     <<" ", "/", "*", "x">>,
     <<"x", "/", "*">>,
     <<"/", "*", "/">>}

ScriptContents == {Join(ls) : ls \in SeqsUpTo(ScriptLines, MaxLines)}

\* everything but the analyzer's text and result
otherState ==
    <<db, txActive, txSnapshot, now, history, pc, repo, scanId, stats,
      fileList, idx, thrown, runs, injected, outcome, errorLog, startTotals,
      handle, inflight>>

InitLines == \E str \in ScriptContents : InitWith(EmptyDb, str)

CallLineCounts ==
    /\ analyzed = <<>>
    /\ analyzed' = <<LineCountsOf(fileContent)>>
    /\ UNCHANGED fileContent
    /\ UNCHANGED otherState

NextLines == CallLineCounts

SpecLines == InitLines /\ [][NextLines]_vars

\* C15: for every script content the counters add up: code_lines +
\* comment_lines + blank_lines equals the number of lines, each line having
\* gone into exactly one counter (none is negative or skipped).
C15_LineClassesAddUp ==
    \A i \in 1..Len(analyzed) :
        LET a == analyzed[i]
        IN /\ a.lines_count = Len(Split(fileContent, <<>>))
           /\ a.code_lines >= 0 /\ a.comment_lines >= 0 /\ a.blank_lines >= 0
           /\ a.code_lines + a.comment_lines + a.blank_lines = a.lines_count

\* a file that is one unterminated block comment over three lines, the last
\* of them blank, has been analyzed: two comment lines and a blank one
C15_Witness ==
    /\ fileContent = <<"/", "*", "\n", "x", "\n">>
    /\ analyzed = <<[lines_count |-> 3, code_lines |-> 0, comment_lines |-> 2,
                     blank_lines |-> 1]>>


\* the counters and the flag after the first k lines of a script content
ResultAfter(str, k) ==
    CountLineTypes(SubSeq(Split(str, <<>>), 1, k),
                   [codeLines |-> 0, commentLines |-> 0, blankLines |-> 0,
                    inBlockComment |-> FALSE])

\* line k of the content went into commentLines
CountedAsComment(str, k) ==
    ResultAfter(str, k).commentLines = ResultAfter(str, k - 1).commentLines + 1

\* line a opens a block comment (the flag is clear before it and the trimmed
\* line starts with the opening mark) whose first closing mark is on line b
BlockComment(str, a, b) ==
    LET lines == Split(str, <<>>)
    IN /\ a \in 1..Len(lines) /\ b \in a..Len(lines)
       /\ ~ResultAfter(str, a - 1).inBlockComment
       /\ StartsWith(Trim(lines[a]), <<"/", "*">>)
       /\ Includes(Trim(lines[b]), <<"*", "/">>)
       /\ \A k \in a..(b - 1) : ~Includes(Trim(lines[k]), <<"*", "/">>)

\* C26: when a block comment opens on line a and its first closing mark is
\* on line b >= a, each of the lines a..b is counted as a comment line, also
\* one that is empty or starts with two slashes, and the flag is clear when
\* line b + 1 is classified.
C26_BlockCommentLines ==
    analyzed # <<>> =>
        \A a \in 1..MaxLines, b \in 1..MaxLines :
            BlockComment(fileContent, a, b) =>
                /\ \A k \in a..b : CountedAsComment(fileContent, k)
                /\ ~ResultAfter(fileContent, b).inBlockComment

----------------------------------------------------------------------------
(* RepositoryMapper.calculateComplexity *)

MaxAdded == 2

\* the characters \w matches
WordChars ==
    {"a", "b", "c", "d", "e", "f", "g", "h", "i", "j", "k", "l", "m", "n", "o", "p", "q", "r", "s", "t", "u", "v", "w", "x", "y", "z"}
    \cup {"A", "B", "C", "D", "E", "F", "G", "H", "I", "J", "K", "L", "M", "N", "O", "P", "Q", "R", "S", "T", "U", "V", "W", "X", "Y", "Z"}
    \cup {"0", "1", "2", "3", "4", "5", "6", "7", "8", "9"} \cup {"_"}

\* \b at the position before str[i] (i = Len(str) + 1: at the end)
WordBoundary(str, i) ==
    LET before == i > 1 /\ str[i - 1] \in WordChars
        after == i <= Len(str) /\ str[i] \in WordChars
    IN before # after

\* the literal p is in str at index i
LiteralAt(str, i, p) ==
    i + Len(p) - 1 <= Len(str) /\ SubSeq(str, i, i + Len(p) - 1) = p

\* index of the first character at or after i that is not white space
RECURSIVE SkipSpace(_, _)
SkipSpace(str, i) ==
    IF i <= Len(str) /\ str[i] \in WhiteSpace THEN SkipSpace(str, i + 1) ELSE i

\* the decision-point patterns, in the order of the array `patterns`:
\* /\bw\b/g is ["word", w], /\belse\s+if\b/g is ["words", else, if],
\* /&&/g is ["literal", &&]
DecisionPatterns ==
    <<[kind |-> "word", text |-> <<"i", "f">>, next |-> <<>>],
      [kind |-> "words", text |-> <<"e", "l", "s", "e">>, next |-> <<"i", "f">>],
      [kind |-> "word", text |-> <<"f", "o", "r">>, next |-> <<>>],
      [kind |-> "word", text |-> <<"w", "h", "i", "l", "e">>, next |-> <<>>],
      [kind |-> "word", text |-> <<"c", "a", "s", "e">>, next |-> <<>>],
      [kind |-> "word", text |-> <<"c", "a", "t", "c", "h">>, next |-> <<>>],
      [kind |-> "literal", text |-> <<"&", "&">>, next |-> <<>>],
      [kind |-> "literal", text |-> <<"|", "|">>, next |-> <<>>],
      [kind |-> "literal", text |-> <<"?">>, next |-> <<>>]>>

\* length of the match of pattern p that starts at index i of str, 0 if none
MatchLength(p, str, i) ==
    CASE p.kind = "literal" ->
            IF LiteralAt(str, i, p.text) THEN Len(p.text) ELSE 0
      [] p.kind = "word" ->
            IF /\ LiteralAt(str, i, p.text)
               /\ WordBoundary(str, i)
               /\ WordBoundary(str, i + Len(p.text))
            THEN Len(p.text) ELSE 0
      [] p.kind = "words" ->
            LET j == i + Len(p.text)
                k == SkipSpace(str, j)
            IN IF /\ LiteralAt(str, i, p.text)
                  /\ WordBoundary(str, i)
                  /\ k > j
                  /\ LiteralAt(str, k, p.next)
                  /\ WordBoundary(str, k + Len(p.next))
               THEN k + Len(p.next) - i ELSE 0

\* code.match(pattern) with the g flag: the number of matches, found left
\* to right, each search resuming after the previous match
RECURSIVE CountMatches(_, _, _)
CountMatches(p, str, i) ==
    IF i > Len(str) THEN 0
    ELSE LET n == MatchLength(p, str, i)
         IN IF n > 0 THEN 1 + CountMatches(p, str, i + n)
            ELSE CountMatches(p, str, i + 1)

calculateComplexity(code) ==
    1 + SumSeq([k \in 1..Len(DecisionPatterns) |->
                   CountMatches(DecisionPatterns[k], code, 1)])

\* the counted constructs as they are written in code: if, else if, for, while, case, catch, &&, ||, ?
CountedConstructs ==
    {<<"i", "f">>,
     <<"e", "l", "s", "e", " ", "i", "f">>,
     <<"f", "o", "r">>,
     <<"w", "h", "i", "l", "e">>,
     <<"c", "a", "s", "e">>,
     <<"c", "a", "t", "c", "h">>,
     <<"&", "&">>,
     <<"|", "|">>,
     <<"?">>}

\* function texts: '', 'x', 'return a', 'if (a) {', 'a && b', '} else if (b) {', 'iffy(a)', 'a ? b : c'
FunctionTexts ==
    {<<>>,
     <<"x">>,
     <<"r", "e", "t", "u", "r", "n", " ", "a">>,
     <<"i", "f", " ", "(", "a", ")", " ", "{">>,
     <<"a", " ", "&", "&", " ", "b">>,
     <<"}", " ", "e", "l", "s", "e", " ", "i", "f", " ", "(", "b", ")", " ", "{">>,
     <<"i", "f", "f", "y", "(", "a", ")">>,
     <<"a", " ", "?", " ", "b", " ", ":", " ", "c">>}

\* code with n further occurrences of construct, each set off by a space
RECURSIVE WithAdded(_, _, _)
WithAdded(code, construct, n) ==
    IF n = 0 THEN code
    ELSE WithAdded(code \o <<" ">> \o construct, construct, n - 1)

InitComplexity == \E str \in FunctionTexts : InitWith(EmptyDb, str)

\* calculateComplexity applied to the text as it is and with n further
\* occurrences of one construct
CallCalculateComplexity ==
    /\ analyzed = <<>>
    /\ \E construct \in CountedConstructs, n \in 0..MaxAdded :
         analyzed' = <<[construct |-> construct, added |-> n,
                        before |-> calculateComplexity(fileContent),
                        after |-> calculateComplexity(
                                      WithAdded(fileContent, construct, n))]>>
    /\ UNCHANGED fileContent
    /\ UNCHANGED otherState

NextComplexity == CallCalculateComplexity

SpecComplexity == InitComplexity /\ [][NextComplexity]_vars

\* C16: n further occurrences of one counted construct raise the measured
\* complexity by exactly n, and a text with no counted construct measures 1.
C16_ComplexityAddsOnePerConstruct ==
    \A i \in 1..Len(analyzed) :
        LET a == analyzed[i]
        IN /\ a.after = a.before + a.added
           /\ (\A c \in CountedConstructs : ~Includes(fileContent, c))
                  => a.before = 1

----------------------------------------------------------------------------
(* RepositoryMapper.extractFunctions.  A position in a string is an index; *)
(* 0 is "the pattern does not match".                                      *)

\* [a-zA-Z_$] and [a-zA-Z0-9_$]
IdentStart == (WordChars \ {"0", "1", "2", "3", "4", "5", "6", "7", "8", "9"}) \cup {"$"}
IdentChars == WordChars \cup {"$"}

\* the literal p at position i: the position after it
Lit(str, i, p) == IF i # 0 /\ LiteralAt(str, i, p) THEN i + Len(p) ELSE 0

\* \s* and \s+ at position i: the position after the white space
Sp0(str, i) == IF i = 0 THEN 0 ELSE SkipSpace(str, i)
Sp1(str, i) == IF i # 0 /\ SkipSpace(str, i) > i THEN SkipSpace(str, i) ELSE 0

RECURSIVE IdentRest(_, _)
IdentRest(str, i) ==
    IF i <= Len(str) /\ str[i] \in IdentChars THEN IdentRest(str, i + 1) ELSE i

\* [a-zA-Z_$][a-zA-Z0-9_$]* at position i: the position after the name
Ident(str, i) ==
    IF i # 0 /\ i <= Len(str) /\ str[i] \in IdentStart
    THEN IdentRest(str, i + 1) ELSE 0

\* \((.*?)\) at position i, followed by \s* and the literal tail
Parens(str, i, tail) ==
    /\ i # 0
    /\ LiteralAt(str, i, <<"(">>)
    /\ \E j \in (i + 1)..Len(str) :
          /\ str[j] = ")"
          /\ LiteralAt(str, SkipSpace(str, j + 1), tail)

NoMatch == <<>>

\* the text between two positions, NoMatch unless ok
Group(str, from, to, ok) == IF ok THEN SubSeq(str, from, to - 1) ELSE NoMatch

\* line.match(patterns[k])[2] for the k-th pattern of extractFunctions,
\* NoMatch when the line does not match
MatchPattern(k, line) ==
    LET s0 == Sp0(line, 1)
        \* function name(  /  async function name(
        f1 == Sp1(line, Lit(line,
                  IF k = 5 THEN Sp1(line, Lit(line, s0, <<"a", "s", "y", "n", "c">>)) ELSE s0,
                  <<"f", "u", "n", "c", "t", "i", "o", "n">>))
        f2 == Ident(line, f1)
        \* const name =
        c1 == Sp1(line, Lit(line, s0, <<"c", "o", "n", "s", "t">>))
        c2 == Ident(line, c1)
        c3 == Sp0(line, Lit(line, Sp0(line, c2), <<"=">>))
        \* name(
        m2 == Ident(line, s0)
    IN CASE k \in {1, 5} ->
              Group(line, f1, f2, Parens(line, Sp0(line, f2), <<>>))
         [] k = 2 ->
              Group(line, c1, c2, Parens(line, c3, <<"=", ">">>))
         [] k = 3 ->
              Group(line, c1, c2,
                    Lit(line, Sp0(line, Ident(line, c3)), <<"=", ">">>) # 0)
         [] k = 4 ->
              Group(line, s0, m2, Parens(line, Sp0(line, m2), <<"{">>))
         [] k = 6 ->
              Group(line, c1, c2,
                    Parens(line, Sp0(line, Lit(line, c3, <<"a", "s", "y", "n", "c">>)),
                           <<"=", ">">>))

NumPatterns == 6

\* no name is reserved
jsKeywordsNone == {}

jsKeywords ==
    {<<"i", "f">>,
     <<"f", "o", "r">>,
     <<"w", "h", "i", "l", "e">>,
     <<"s", "w", "i", "t", "c", "h">>,
     <<"c", "a", "t", "c", "h">>,
     <<"w", "i", "t", "h">>,
     <<"e", "l", "s", "e">>}

\* findFunctionEnd: the characters of one line from index j on; the brace
\* count, and whether a closing brace brought it to 0 after a first brace
RECURSIVE ScanBraces(_, _, _, _)
ScanBraces(line, j, braceCount, foundFirstBrace) ==
    IF j > Len(line)
    THEN [closed |-> FALSE, braceCount |-> braceCount,
          foundFirstBrace |-> foundFirstBrace]
    ELSE IF line[j] = "{"
    THEN ScanBraces(line, j + 1, braceCount + 1, TRUE)
    ELSE IF line[j] = "}"
    THEN IF foundFirstBrace /\ braceCount - 1 = 0
         THEN [closed |-> TRUE, braceCount |-> 0, foundFirstBrace |-> TRUE]
         ELSE ScanBraces(line, j + 1, braceCount - 1, foundFirstBrace)
    ELSE ScanBraces(line, j + 1, braceCount, foundFirstBrace)

\* findFunctionEnd from line i on (lines are numbered from 1 here)
RECURSIVE FindEndFrom(_, _, _, _, _)
FindEndFrom(lines, startLine, i, braceCount, foundFirstBrace) ==
    IF i > Len(lines) THEN startLine
    ELSE LET line == lines[i]
             r == ScanBraces(line, 1, braceCount, foundFirstBrace)
         IN IF r.closed THEN i
            ELSE IF /\ i = startLine
                    /\ Includes(line, <<"=", ">">>)
                    /\ ~Includes(line, <<"{">>)
                    /\ ~EndsWith(Trim(line), <<"(">>)
                    /\ ~EndsWith(Trim(line), <<",">>)
            THEN i
            ELSE FindEndFrom(lines, startLine, i + 1, r.braceCount,
                             r.foundFirstBrace)

findFunctionEnd(lines, startLine) ==
    FindEndFrom(lines, startLine, startLine, 0, FALSE)

\* an extractFunctions that goes on with the line after the declaration
\* instead of the line after the function's end
RECURSIVE ExtractFromEveryLine(_, _, _, _)
ExtractFromEveryLine(lines, i, k, functions) ==
    IF i > Len(lines) THEN functions
    ELSE IF k > NumPatterns THEN ExtractFromEveryLine(lines, i + 1, 1, functions)
    ELSE LET line == lines[i]
             name == MatchPattern(k, line)
         IN IF name = NoMatch \/ name \in jsKeywords
            THEN ExtractFromEveryLine(lines, i, k + 1, functions)
            ELSE LET lineEnd == FindEndFrom(lines, i, i, 0, FALSE)
                 IN ExtractFromEveryLine(lines, i + 1, 1,
                        Append(functions,
                            [name |-> name,
                             line_start |-> i,
                             line_end |-> lineEnd,
                             is_async |-> Includes(line, <<"a", "s", "y", "n", "c">>),
                             is_arrow_function |-> Includes(line, <<"=", ">">>),
                             complexity |-> 1]))

\* extractFunctions: the loops over lines (i, from 1) and patterns (k)
RECURSIVE ExtractFrom(_, _, _, _)
ExtractFrom(lines, i, k, functions) ==
    IF i > Len(lines) THEN functions
    ELSE IF k > NumPatterns THEN ExtractFrom(lines, i + 1, 1, functions)
    ELSE LET line == lines[i]
             name == MatchPattern(k, line)
         IN IF name = NoMatch \/ name \in jsKeywords
            THEN ExtractFrom(lines, i, k + 1, functions)
            ELSE LET lineEnd == findFunctionEnd(lines, i)
                     functionCode == Join(SubSeq(lines, i, lineEnd))
                 IN ExtractFrom(lines, lineEnd + 1, 1,
                        Append(functions,
                            [name |-> name,
                             line_start |-> i,
                             line_end |-> lineEnd,
                             is_async |-> Includes(line, <<"a", "s", "y", "n", "c">>),
                             is_arrow_function |-> Includes(line, <<"=", ">">>),
                             complexity |-> calculateComplexity(functionCode)]))

extractFunctions(str) == ExtractFrom(Split(str, <<>>), 1, 1, <<>>)

\* lines of code: 'if (x) {'
\* 'function f(a) {'
\* '}'
\* 'const g = (a) => a'
\* '  catch (e) {'
\* 'foo(a) {'
\* 'function for(x) {'
\* 'const else = x => x'
\* 'async function while() {'
\* 'const h = async (a) => {'
\* "function k(a = '}') {"
CodeLines ==
    {<<"f", "u", "n", "c", "t", "i", "o", "n", " ", "k", "(", "a", " ", "=", " ", "'", "}", "'", ")", " ", "{">>,
     <<"i", "f", " ", "(", "x", ")", " ", "{">>,
     <<"f", "u", "n", "c", "t", "i", "o", "n", " ", "f", "(", "a", ")", " ", "{">>,
     <<"}">>,
     <<"c", "o", "n", "s", "t", " ", "g", " ", "=", " ", "(", "a", ")", " ", "=", ">", " ", "a">>,
     <<" ", " ", "c", "a", "t", "c", "h", " ", "(", "e", ")", " ", "{">>,
     <<"f", "o", "o", "(", "a", ")", " ", "{">>,
     <<"f", "u", "n", "c", "t", "i", "o", "n", " ", "f", "o", "r", "(", "x", ")", " ", "{">>,
     <<"c", "o", "n", "s", "t", " ", "e", "l", "s", "e", " ", "=", " ", "x", " ", "=", ">", " ", "x">>,
     <<"a", "s", "y", "n", "c", " ", "f", "u", "n", "c", "t", "i", "o", "n", " ", "w", "h", "i", "l", "e", "(", ")", " ", "{">>,
     <<"c", "o", "n", "s", "t", " ", "h", " ", "=", " ", "a", "s", "y", "n", "c", " ", "(", "a", ")", " ", "=", ">", " ", "{">>}

CodeContents == {Join(ls) : ls \in SeqsUpTo(CodeLines, MaxLines)}

InitFunctions == \E str \in CodeContents : InitWith(EmptyDb, str)

CallExtractFunctions ==
    /\ analyzed = <<>>
    /\ analyzed' = <<extractFunctions(fileContent)>>
    /\ UNCHANGED fileContent
    /\ UNCHANGED otherState

NextFunctions == CallExtractFunctions

SpecFunctions == InitFunctions /\ [][NextFunctions]_vars

\* the name a line declares: that of the first pattern matching it
DeclaredName(line) ==
    LET hits == {k \in 1..NumPatterns : MatchPattern(k, line) # NoMatch}
    IN IF hits = {} THEN NoMatch
       ELSE MatchPattern(CHOOSE k \in hits : \A j \in hits : k <= j, line)

\* C18: function discovery returns no function named if, for, while,
\* switch, catch, with or else; a line that declares such a name (like
\* `if (x) {`) starts no function, and when discovery comes to such a line
\* the function declared on the following line is still discovered.
C18_NoReservedWordFunctions ==
    \A n \in 1..Len(analyzed) :
        LET functions == analyzed[n]
            lines == Split(fileContent, <<>>)
            Reserved == {<<"i", "f">>,
                         <<"f", "o", "r">>,
                         <<"w", "h", "i", "l", "e">>,
                         <<"s", "w", "i", "t", "c", "h">>,
                         <<"c", "a", "t", "c", "h">>,
                         <<"w", "i", "t", "h">>,
                         <<"e", "l", "s", "e">>}
            Starts == {functions[j].line_start : j \in 1..Len(functions)}
            Inside(i) == \E j \in 1..Len(functions) :
                            /\ functions[j].line_start <= i
                            /\ i <= functions[j].line_end
        IN /\ \A j \in 1..Len(functions) : functions[j].name \notin Reserved
           /\ \A i \in 1..Len(lines) :
                 DeclaredName(lines[i]) \in Reserved =>
                    /\ i \notin Starts
                    /\ (/\ ~Inside(i)
                        /\ i < Len(lines)
                        /\ DeclaredName(lines[i + 1]) \notin Reserved \cup {NoMatch})
                       => \E j \in 1..Len(functions) :
                             /\ functions[j].line_start = i + 1
                             /\ functions[j].name = DeclaredName(lines[i + 1])

\* `if (x) {` followed by `function f(a) {` and `}`: one function, f, on
\* lines 2 to 3
C18_Witness ==
    /\ Split(fileContent, <<>>) = <<<<"i", "f", " ", "(", "x", ")", " ", "{">>, 
          <<"f", "u", "n", "c", "t", "i", "o", "n", " ", "f", "(", "a", ")", " ", "{">>, 
          <<"}">>>>
    /\ Len(analyzed) = 1
    /\ Len(analyzed[1]) = 1
    /\ analyzed[1][1].name = <<"f">>
    /\ analyzed[1][1].line_start = 2
    /\ analyzed[1][1].line_end = 3


\* the line on which the brace opened first at or after (line i, column j)
\* is closed again, depth being counted from that first opening brace only;
\* 0 when there is no such line
RECURSIVE MatchingClose(_, _, _, _, _)
MatchingClose(lines, i, j, depth, opened) ==
    IF i > Len(lines) THEN 0
    ELSE IF j > Len(lines[i]) THEN MatchingClose(lines, i + 1, 1, depth, opened)
    ELSE IF lines[i][j] = "{"
    THEN MatchingClose(lines, i, j + 1, depth + 1, TRUE)
    ELSE IF lines[i][j] = "}" /\ opened
    THEN IF depth = 1 THEN i
         ELSE MatchingClose(lines, i, j + 1, depth - 1, TRUE)
    ELSE MatchingClose(lines, i, j + 1, depth, opened)

\* a single-line arrow function without braces
BracelessArrow(line) ==
    /\ Includes(line, <<"=", ">">>)
    /\ ~Includes(line, <<"{">>)
    /\ ~EndsWith(Trim(line), <<"(">>)
    /\ ~EndsWith(Trim(line), <<",">>)

\* C27: the end line of a discovered function is the line of the closing
\* brace that matches the first opening brace found at or after the
\* declaration line, with depth counted from that first opening brace only
\* (closing braces before it have no effect); for a single-line arrow
\* function without braces, and when no matching closing brace exists, it is
\* the declaration line.
C27_EndIsMatchingBrace ==
    \A n \in 1..Len(analyzed) : \A j \in 1..Len(analyzed[n]) :
        LET lines == Split(fileContent, <<>>)
            start == analyzed[n][j].line_start
            close == MatchingClose(lines, start, 1, 0, FALSE)
        IN analyzed[n][j].line_end =
              IF BracelessArrow(lines[start]) \/ close = 0 THEN start ELSE close

\* C28: the discovered functions satisfy 1 <= line_start <= line_end <=
\* number of lines, no two of them start on the same line, and the list is
\* in strictly increasing, non-overlapping order: each line_start is greater
\* than the line_end before it.
C28_FunctionsInOrder ==
    \A n \in 1..Len(analyzed) :
        LET functions == analyzed[n]
        IN /\ \A j \in 1..Len(functions) :
                /\ 1 <= functions[j].line_start
                /\ functions[j].line_start <= functions[j].line_end
                /\ functions[j].line_end <= Len(Split(fileContent, <<>>))
           /\ \A j \in 1..Len(functions), l \in 1..Len(functions) :
                j # l => functions[j].line_start # functions[l].line_start
           /\ \A j \in 2..Len(functions) :
                functions[j].line_start > functions[j - 1].line_end

\* a function over lines 1 to 2 with a second declaration on the line after
\* its end: two functions, on lines 1..2 and 3..3
C28_Witness ==
    /\ Len(analyzed) = 1
    /\ Len(analyzed[1]) = 2
    /\ analyzed[1][1].line_start = 1 /\ analyzed[1][1].line_end = 2
    /\ analyzed[1][2].line_start = 3 /\ analyzed[1][2].line_end = 3

----------------------------------------------------------------------------
(* DatabaseCLI: the export command *)

\* the columns of view v_files_complete
v_files_complete_columns ==
    {"id", "name", "path", "file_type", "extension", "size_bytes",
     "lines_count", "code_lines", "comment_lines", "blank_lines", "purpose",
     "complexity_score", "directory_path", "repo_name", "repo_owner",
     "function_count", "class_count", "import_count", "export_count"}

\* the rows of view v_files_complete: one per File row, with the columns
\* of the model's tables
v_files_complete(d) ==
    [i \in 1..Len(d.files) |->
        [id |-> i, name |-> d.files[i].cols.name, path |-> d.files[i].path,
         purpose |-> d.files[i].cols.purpose,
         lines_count |-> d.files[i].cols.lines_count,
         repo_name |->
             d.repository_metadata[d.files[i].repo_metadata_id].repo_name,
         repo_owner |->
             d.repository_metadata[d.files[i].repo_metadata_id].repo_owner,
         function_count |->
             Cardinality({j \in 1..Len(d.functions) :
                             d.functions[j].file_id = i}),
         import_count |->
             Cardinality({j \in 1..Len(d.imports) : d.imports[j].file_id = i}),
         export_count |->
             Cardinality({j \in 1..Len(d.exports) :
                             d.exports[j].file_id = i})]]

\* getAllFiles(repoId): SELECT * FROM v_files_complete WHERE
\* repo_metadata_id = ?.  A statement naming a column its source does not
\* have fails to compile and query() rejects.
getAllFiles(d, repoId) ==
    IF "repo_metadata_id" \in v_files_complete_columns
    THEN [rows |-> SelectSeq(v_files_complete(d),
                             LAMBDA r : r.repo_metadata_id = repoId),
          error |-> "none"]
    ELSE [rows |-> <<>>,
          error |-> "SQLITE_ERROR: no such column: repo_metadata_id"]

\* getDependencyGraph(repoId): the rows of v_dependency_graph whose
\* from_file is the path of a file of the repository
getDependencyGraph(d, repoId) ==
    LET paths == {d.files[i].path : i \in {j \in 1..Len(d.files) :
                                     d.files[j].repo_metadata_id = repoId}}
    IN SelectSeq(
          [k \in 1..Len(d.dependencies) |->
              [id |-> k,
               from_file |-> d.files[d.dependencies[k].from_file_id].path,
               to_file |-> IF d.dependencies[k].to_file_id = NULL THEN <<>>
                           ELSE d.files[d.dependencies[k].to_file_id].path,
               is_resolved |-> d.dependencies[k].is_resolved]],
          LAMBDA r : r.from_file \in paths)

\* getRepositoryMetrics(repoId): the file and function statistics
getRepositoryMetrics(d, repoId) ==
    LET ids == {i \in 1..Len(d.files) : d.files[i].repo_metadata_id = repoId}
    IN [files |->
            [total_files |-> Cardinality(ids),
             total_lines |->
                 SumSeq([i \in 1..Len(d.files) |->
                            IF i \in ids THEN d.files[i].cols.lines_count
                            ELSE 0])],
        functions |->
            [total_functions |->
                 Cardinality({j \in 1..Len(d.functions) :
                                 d.functions[j].file_id \in ids})]]

\* SELECT * FROM repository_metadata ORDER BY last_updated DESC LIMIT 1: a
\* row with the greatest last_updated (any of them when they tie)
LatestRepositories(d) ==
    {i \in 1..Len(d.repository_metadata) :
        \A j \in 1..Len(d.repository_metadata) :
            d.repository_metadata[j].last_updated
                <= d.repository_metadata[i].last_updated}

\* exportData() with the row the first query returned (NULL for none): the
\* document written to the console, NULL when nothing is written, and the
\* error it rejects with
exportData(d, repoId) ==
    IF repoId = NULL
    THEN [output |-> NULL, error |-> "none"]
    ELSE LET files == getAllFiles(d, repoId)
         IN IF files.error # "none"
            THEN [output |-> NULL, error |-> files.error]
            ELSE [output |->
                      [repository |-> d.repository_metadata[repoId],
                       files |-> files.rows,
                       dependencies |-> getDependencyGraph(d, repoId),
                       metrics |-> getRepositoryMetrics(d, repoId)],
                  error |-> "none"]

\* the action of command export: connect, exportData, and process.exit(1)
\* in the catch
CallExport ==
    /\ Len(history) < MaxCalls
    /\ ~txActive
    /\ \E repoId \in IF db.repository_metadata = <<>> THEN {NULL}
                     ELSE LatestRepositories(db) :
         LET r == exportData(db, repoId)
         IN history' = Append(history,
                [op |-> "export", repoId |-> repoId, arg |-> NULL,
                 output |-> r.output, raised |-> r.error,
                 ret |-> IF r.error = "none" THEN 0 ELSE 1])
    /\ UNCHANGED <<db, txActive, txSnapshot, now>>
    /\ UNCHANGED mapperState

NextExport ==
    \/ CallGetOrCreateRepository
    \/ CallAnalyzeFile
    \/ CallMigrate
    \/ CallExport
    \/ Tick

SpecExport == InitRepo /\ [][NextExport]_vars

\* C20: with at least one Repository row, the export command succeeds (exit
\* status 0) and writes one document whose files are exactly the File rows
\* of the selected repository, with the repository's record, its dependency
\* edges and its metrics.
C20_ExportWritesRepositoryFiles ==
    [][(/\ Len(history') = Len(history) + 1
        /\ Last(history').op = "export"
        /\ Len(db.repository_metadata) >= 1)
       => LET call == Last(history')
          IN /\ call.ret = 0
             /\ call.output # NULL
             /\ {call.output.files[i].id : i \in 1..Len(call.output.files)}
                    = {i \in 1..Len(db.files) :
                          db.files[i].repo_metadata_id = call.repoId}
             /\ call.output.repository = db.repository_metadata[call.repoId]
             /\ call.output.dependencies = getDependencyGraph(db, call.repoId)
             /\ call.output.metrics = getRepositoryMetrics(db, call.repoId)]_vars


----------------------------------------------------------------------------
(* RepositoryDatabase: connect() and close() *)

\* handle.db is this.db: "null" after construction, "open" for a Database
\* whose open succeeded, "unopened" for one whose open failed, "closed" for
\* one that was closed.

\* connect(): this.db is a new Database; openError is the error of its open
\* callback ("none" when it opens)
connect(h, openError) ==
    IF openError # "none"
    THEN [handle |-> [h EXCEPT !.db = "unopened"],
          error |-> "Failed to connect to database: " \o openError]
    ELSE [handle |-> [db |-> "open", isConnected |-> TRUE], error |-> "none"]

SQLITE_MISUSE == "SQLITE_MISUSE: Database is closed"

\* close(): resolves at once when this.db is null; otherwise this.db.close(),
\* whose callback carries an error for a Database that is already closed
\* (this.db is not reset by close()).  What the driver does with a close
\* on a Database that never opened is left open: result is one of
\* "none", SQLITE_MISUSE.
close(h, result) ==
    CASE h.db = "null" -> [handle |-> h, error |-> "none"]
      [] h.db = "open" ->
            [handle |-> [db |-> "closed", isConnected |-> FALSE],
             error |-> "none"]
      [] h.db = "closed" -> [handle |-> h, error |-> SQLITE_MISUSE]
      [] h.db = "unopened" ->
            IF result = "none"
            THEN [handle |-> [h EXCEPT !.isConnected = FALSE], error |-> "none"]
            ELSE [handle |-> h, error |-> result]

CallConnect ==
    /\ Len(history) < MaxCalls
    /\ \E openError \in {"none", "SQLITE_CANTOPEN: unable to open database file"} :
         LET r == connect(handle, openError)
         IN /\ handle' = r.handle
            /\ history' = Append(history,
                   [op |-> "connect", repoId |-> NULL, arg |-> handle.db,
                    raised |-> r.error, ret |-> NULL])
    /\ UNCHANGED <<db, txActive, txSnapshot, now, pc, repo, scanId, stats,
                   fileList, idx, thrown, runs, injected, outcome, errorLog,
                   startTotals, fileContent, analyzed, inflight>>

CallClose ==
    /\ Len(history) < MaxCalls
    /\ \E result \in {"none", SQLITE_MISUSE} :
         LET r == close(handle, result)
         IN /\ handle' = r.handle
            /\ history' = Append(history,
                   [op |-> "close", repoId |-> NULL, arg |-> handle.db,
                    raised |-> r.error, ret |-> NULL])
    /\ UNCHANGED <<db, txActive, txSnapshot, now, pc, repo, scanId, stats,
                   fileList, idx, thrown, runs, injected, outcome, errorLog,
                   startTotals, fileContent, analyzed, inflight>>

\* a call made by a client whose connection is open
CallOnOpenHandle ==
    /\ handle.db = "open"
    /\ CallGetOrCreateRepository

NextConnection == CallConnect \/ CallClose \/ CallOnOpenHandle \/ Tick

SpecConnection == Init /\ [][NextConnection]_vars

\* C21: close() is idempotent.  A close() issued before any connect(), and
\* a close() issued after a connect() that succeeded and a close() that
\* followed it, resolve without error and leave no open storage handle.
C21_CloseIdempotent ==
    [][(/\ Len(history') = Len(history) + 1
        /\ Last(history').op = "close"
        /\ handle.db \in {"null", "closed"})
       => /\ Last(history').raised = "none"
          /\ handle'.db # "open"
          /\ ~handle'.isConnected]_vars


----------------------------------------------------------------------------
(* The scanner and the migration tool on one database *)

MaxMigrations == 1

\* migrate() run from start to end while no run() of the scanner is under way
MigrateWhenIdle ==
    /\ pc = "idle"
    /\ Len(history) < MaxMigrations
    /\ CallMigrate

NextRuns == Next \/ MigrateWhenIdle

SpecRuns == Init /\ [][NextRuns]_vars

\* C22: every Scan row that run() or migrate() created has left status
\* 'running' (it is 'completed' or 'failed') once the operation has
\* returned, thrown or exited the process, whichever step failed.
C22_ScansLeaveRunning ==
    pc = "idle" =>
        /\ InRun => ScanRow.status \in {"completed", "failed"}
        /\ \A k \in 1..Len(history) :
              history[k].op = "migrate" =>
                  db.scan_history[history[k].scanId].status
                      \in {"completed", "failed"}


----------------------------------------------------------------------------
(* getOrCreateRepository, statement by statement.  inflight holds the calls *)
(* that were started; each awaits its statements one after the other, and   *)
(* the statements of different calls interleave.                            *)

MaxInflight == 2

\* the error of an INSERT that breaks UNIQUE(repo_owner, repo_name)
SQLITE_CONSTRAINT_UNIQUE ==
    "SQLITE_CONSTRAINT: UNIQUE constraint failed: repository_metadata.repo_owner, repository_metadata.repo_name"

otherThanInflight ==
    <<txActive, txSnapshot, now, history, pc, repo, scanId, stats, fileList,
      idx, thrown, runs, injected, outcome, errorLog, startTotals,
      fileContent, analyzed, handle>>

\* getOrCreateRepository(owner, name, url) is called
BeginGetOrCreateRepository ==
    /\ Len(inflight) < MaxInflight
    /\ \E owner \in RepoOwners, name \in RepoNames, url \in RepoUrls :
         inflight' = Append(inflight,
             [owner |-> owner, name |-> name, url |-> url, at |-> "select",
              ret |-> UNDEFINED, error |-> "none"])
    /\ UNCHANGED db
    /\ UNCHANGED otherThanInflight

\* the SELECT by (owner, name) of call i: the call returns the row it finds
SelectRepository(i) ==
    /\ inflight[i].at = "select"
    /\ LET existing == RepoIdOf(db, inflight[i].owner, inflight[i].name)
       IN inflight' = [inflight EXCEPT ![i] =
              IF existing # NULL
              THEN [@ EXCEPT !.at = "done", !.ret = existing]
              ELSE [@ EXCEPT !.at = "insert"]]
    /\ UNCHANGED db
    /\ UNCHANGED otherThanInflight

\* the INSERT of call i: rejected when the pair has a row by now
InsertRepository(i) ==
    /\ inflight[i].at = "insert"
    /\ LET c == inflight[i]
           r == getOrCreateRepository(db, c.owner, c.name, c.url, now)
       IN IF RepoIdOf(db, c.owner, c.name) # NULL
          THEN /\ inflight' = [inflight EXCEPT ![i] =
                      [@ EXCEPT !.at = "done",
                                !.error = SQLITE_CONSTRAINT_UNIQUE]]
               /\ UNCHANGED db
          ELSE /\ inflight' = [inflight EXCEPT ![i] =
                      [@ EXCEPT !.at = "reselect", !.ret = r.ret]]
               /\ db' = r.db
    /\ UNCHANGED otherThanInflight

\* the SELECT by id of call i: the call returns the row it inserted
ReselectRepository(i) ==
    /\ inflight[i].at = "reselect"
    /\ inflight' = [inflight EXCEPT ![i] = [@ EXCEPT !.at = "done"]]
    /\ UNCHANGED db
    /\ UNCHANGED otherThanInflight

NextInterleaved ==
    \/ BeginGetOrCreateRepository
    \/ \E i \in 1..Len(inflight) : SelectRepository(i)
    \/ \E i \in 1..Len(inflight) : InsertRepository(i)
    \/ \E i \in 1..Len(inflight) : ReselectRepository(i)

SpecInterleaved == Init /\ [][NextInterleaved]_vars

\* C23: two getOrCreateRepository calls for one (owner, name), started on a
\* store without a row for the pair and interleaved in any order, leave
\* exactly one Repository row for the pair, both return it, and neither
\* fails with a uniqueness error.
C23_ConcurrentGetOrCreate ==
    \A i, j \in 1..Len(inflight) :
        (/\ i # j
         /\ inflight[i].owner = inflight[j].owner
         /\ inflight[i].name = inflight[j].name
         /\ inflight[i].at = "done"
         /\ inflight[j].at = "done")
        => /\ Cardinality(RowsOfPair(db, inflight[i].owner, inflight[i].name)) = 1
           /\ inflight[i].error = "none"
           /\ inflight[j].error = "none"
           /\ inflight[i].ret = inflight[j].ret
           /\ inflight[i].ret \in RowsOfPair(db, inflight[i].owner,
                                             inflight[i].name)


----------------------------------------------------------------------------
(* Referential integrity of the child tables: direct calls of upsertFile,   *)
(* addFunction, addImport, addExport and addDependency, with file ids that  *)
(* exist and file ids that do not.                                          *)

\* a database holding the Repository row and one File row
InitOneFile ==
    InitDb(upsertFile(getOrCreateRepository(EmptyDb, DefaultOwner, DefaultName,
                                            DefaultUrl, 1).db,
                      1, WithPath(MetaV1, <<"a.js">>), 1).db)

\* file ids a caller may name: the stored ones, and the next unused one
NamedFileIds == 1..(Len(db.files) + 1)

InsertFunction ==
    /\ Len(history) < MaxCalls
    /\ \E fileId \in NamedFileIds :
         /\ db' = addFunction(db, fileId, [name |-> "render", complexity |-> 4])
         /\ history' = Append(history,
                [op |-> "addFunction", repoId |-> NULL,
                 arg |-> <<fileId, NULL>>,
                 ret |-> Len(db'.functions),
                 raised |-> insertError(db, fileId, NULL)])
    /\ UNCHANGED <<txActive, txSnapshot, now>>
    /\ UNCHANGED mapperState

InsertImport ==
    /\ Len(history) < MaxCalls
    /\ \E fileId \in NamedFileIds :
         /\ db' = addImport(db, fileId,
                    [imported_from |-> <<".", "util.js">>,
                     import_type |-> "es6", is_external |-> FALSE])
         /\ history' = Append(history,
                [op |-> "addImport", repoId |-> NULL,
                 arg |-> <<fileId, NULL>>,
                 ret |-> Len(db'.imports),
                 raised |-> insertError(db, fileId, NULL)])
    /\ UNCHANGED <<txActive, txSnapshot, now>>
    /\ UNCHANGED mapperState

InsertExport ==
    /\ Len(history) < MaxCalls
    /\ \E fileId \in NamedFileIds :
         /\ db' = addExport(db, fileId,
                    [exported_name |-> "render", export_type |-> "named"])
         /\ history' = Append(history,
                [op |-> "addExport", repoId |-> NULL,
                 arg |-> <<fileId, NULL>>,
                 ret |-> Len(db'.exports),
                 raised |-> insertError(db, fileId, NULL)])
    /\ UNCHANGED <<txActive, txSnapshot, now>>
    /\ UNCHANGED mapperState

InsertDependency ==
    /\ Len(history) < MaxCalls
    /\ \E fromFileId \in NamedFileIds, toFileId \in {NULL} \cup NamedFileIds :
         /\ db' = dbAddDependency(db, fromFileId, toFileId, "import",
                                  <<".", "util.js">>)
         /\ history' = Append(history,
                [op |-> "addDependency", repoId |-> NULL,
                 arg |-> <<fromFileId, toFileId>>,
                 ret |-> Len(db'.dependencies),
                 raised |-> insertError(db, fromFileId, toFileId)])
    /\ UNCHANGED <<txActive, txSnapshot, now>>
    /\ UNCHANGED mapperState

NextIntegrity ==
    \/ CallUpsertFile
    \/ InsertFunction
    \/ InsertImport
    \/ InsertExport
    \/ InsertDependency

SpecIntegrity == InitOneFile /\ [][NextIntegrity]_vars

ChildInserts == {"addFunction", "addImport", "addExport", "addDependency"}

\* every file id held by a child row is the id of a File row
ReferentialIntegrity(d) ==
    /\ \A i \in 1..Len(d.functions) : d.functions[i].file_id \in FileIds(d)
    /\ \A i \in 1..Len(d.imports) : d.imports[i].file_id \in FileIds(d)
    /\ \A i \in 1..Len(d.exports) : d.exports[i].file_id \in FileIds(d)
    /\ \A i \in 1..Len(d.dependencies) :
         /\ d.dependencies[i].from_file_id \in FileIds(d)
         /\ d.dependencies[i].to_file_id = NULL
            \/ d.dependencies[i].to_file_id \in FileIds(d)

\* the last call named a file id that no File row has
NamesMissingFile(d, call) ==
    /\ call.op \in ChildInserts
    /\ \/ call.arg[1] \notin FileIds(d)
       \/ call.arg[2] # NULL /\ call.arg[2] \notin FileIds(d)

\* C24: after every call of the access layer (upsertFile inserting or
\* updating, addFunction, addImport, addExport, addDependency) each Function,
\* Import and Export row's file_id, and each Dependency row's from_file_id
\* and non-null to_file_id, is the id of a stored File row; and a call that
\* names a file id no File row has is rejected with an error and adds no row.
C24_ReferentialIntegrity ==
    [][/\ ReferentialIntegrity(db')
       /\ Len(history') > Len(history) /\ NamesMissingFile(db, Last(history'))
            => /\ Last(history').raised # "none"
               /\ db' = db]_vars

\* a File row was updated in place, a function was then added to it, and an
\* insert naming a file id that does not exist was rejected
C24_Witness ==
    /\ Len(history) = 3
    /\ history[1].op = "upsertFile" /\ history[1].ret = 1
    /\ history[1].raised = "none"
    /\ history[2].op = "addFunction" /\ history[2].arg[1] = 1
    /\ history[2].raised = "none"
    /\ Len(db.functions) = 1 /\ db.functions[1].file_id = 1
    /\ history[3].op = "addDependency" /\ history[3].arg = <<1, 2>>
    /\ history[3].raised = SQLITE_CONSTRAINT_FOREIGNKEY
    /\ Len(db.dependencies) = 0


----------------------------------------------------------------------------
(* The dependency graph of one repository in a store that holds two.        *)

\* files of two repositories; both hold a file with relative path a.js
GraphFiles ==
    <<[repoId |-> 1, path |-> <<"a.js">>],
      [repoId |-> 2, path |-> <<"a.js">>],
      [repoId |-> 2, path |-> <<"lib", "a.js">>]>>

InitGraph ==
    \E keep \in SUBSET (1..Len(GraphFiles)) :
        InitDb(IndexFiles(TwoRepositories, GraphFiles, keep, 1))

CallGetDependencyGraph ==
    /\ Len(history) < MaxCalls
    /\ \E repoId \in 1..Len(db.repository_metadata) :
         history' = Append(history,
                [op |-> "getDependencyGraph", repoId |-> repoId, arg |-> NULL,
                 ret |-> getDependencyGraph(db, repoId)])
    /\ UNCHANGED <<db, txActive, txSnapshot, now>>
    /\ UNCHANGED mapperState

NextGraph == InsertDependency \/ CallGetDependencyGraph

SpecGraph == InitGraph /\ [][NextGraph]_vars

\* the Dependency rows whose source File row belongs to the repository
EdgesOfRepository(d, repoId) ==
    {k \in 1..Len(d.dependencies) :
        d.files[d.dependencies[k].from_file_id].repo_metadata_id = repoId}

\* C25: getDependencyGraph(repoId) returns exactly the edges whose source
\* File belongs to repoId; an edge that starts at a file of another
\* repository is not returned, also when that file has the same relative
\* path as a file of repoId.
C25_GraphOfOneRepository ==
    [][Len(history') > Len(history)
       /\ Last(history').op = "getDependencyGraph"
         => {Last(history').ret[i].id : i \in 1..Len(Last(history').ret)}
              = EdgesOfRepository(db, Last(history').repoId)]_vars


----------------------------------------------------------------------------
(* Scans of a tree with files of several types, some of which change or     *)
(* disappear between one scan and the next.                                 *)

FileReadme ==
    [path |-> <<"README.md">>, ext |-> "md", size_bytes |-> 30,
     hash |-> "sha-r", lines_count |-> 2, codeLines |-> 0, commentLines |-> 0,
     blankLines |-> 0, purpose |-> "Documentation",
     functions |-> <<>>, imports |-> <<>>, exports |-> <<>>]

FileReadmeLonger ==
    [path |-> <<"README.md">>, ext |-> "md", size_bytes |-> 90,
     hash |-> "sha-s", lines_count |-> 5, codeLines |-> 0, commentLines |-> 0,
     blankLines |-> 0, purpose |-> "Documentation",
     functions |-> <<>>, imports |-> <<>>, exports |-> <<>>]

FileLicense ==
    [path |-> <<"LICENSE">>, ext |-> "", size_bytes |-> 10,
     hash |-> "sha-l", lines_count |-> 1, codeLines |-> 0, commentLines |-> 0,
     blankLines |-> 0, purpose |-> "",
     functions |-> <<>>, imports |-> <<>>, exports |-> <<>>]

MixedTrees ==
    {<<FileA, FileReadme>>, <<FileReadmeLonger, FileLicense>>,
     <<FileLicense>>, <<FileA>>}

NextStatistics ==
    \/ \E tree \in MixedTrees : RunStart(tree, "none")
    \/ ScanFile
    \/ CalculateStatistics(FALSE)
    \/ GenerateOutputFiles
    \/ RunCatch
    \/ RunFinally

SpecStatistics == Init /\ [][NextStatistics]_vars

\* the Language rows of the scanned repository
LanguageRows == SelectSeq(db.languages, LAMBDA r : r.repo_metadata_id = repo)

\* C30: right after calculateStatistics, on the first scan and on every
\* later one, the file_count of the repository's Language rows add up to
\* the Repository's total_files, which is the number of its File rows; their
\* total_lines add up to the Repository's total_lines, which is the sum of
\* lines_count over its File rows; and there is exactly one Language row for
\* each file-type label.
C30_LanguageTotals ==
    pc = "generate" =>
        LET rows == FilesOfRepo(db, repo)
            row == db.repository_metadata[repo]
        IN /\ SumSeq([i \in 1..Len(LanguageRows) |-> LanguageRows[i].file_count])
                = row.total_files
           /\ row.total_files = Len(rows)
           /\ SumSeq([i \in 1..Len(LanguageRows) |-> LanguageRows[i].total_lines])
                = row.total_lines
           /\ row.total_lines =
                SumSeq([i \in 1..Len(rows) |-> rows[i].cols.lines_count])
           /\ {LanguageRows[i].name : i \in 1..Len(LanguageRows)}
                = {LangOf(rows[i]) : i \in 1..Len(rows)}
           /\ \A i, j \in 1..Len(LanguageRows) :
                LanguageRows[i].name = LanguageRows[j].name => i = j

\* calculateStatistics of a second scan has run: three File rows of three
\* labels, one of them rescanned with another line count, one not in the
\* second tree
C30_Witness ==
    /\ pc = "generate"
    /\ runs = 2
    /\ Len(FilesOfRepo(db, repo)) = 3
    /\ Len(LanguageRows) = 3
    /\ db.repository_metadata[repo].total_files = 3
    /\ db.repository_metadata[repo].total_lines = 9

============================================================================
